---------------------------- MODULE Spec2Model ----------------------------
(***************************************************************************)
(* Model of nockbot: the subscription store, the per-recipient alert       *)
(* latches and the periodic poll-and-alert cycle (src/bot.py), its start   *)
(* from the configuration (src/config.py) under the interval scheduler,    *)
(* and the JSON-RPC client with the metrics and volume computations        *)
(* (src/scraper.py).  The height-probe tip search, of which src/ has no    *)
(* code, is modelled from the design text.                                 *)
(*                                                                         *)
(* Proofrates and thresholds are floats in MP/s in the code; the model     *)
(* keeps them as integers in tenths of MP/s (1.0 MP/s = 10), which         *)
(* preserves every comparison the code makes.                              *)
(*                                                                         *)
(* check_and_alert is a coroutine.  It is modelled with a program counter: *)
(* the positions in AwaitPcs are its await points (the metrics fetch and   *)
(* each send_alert), where the event loop may run command handlers; the    *)
(* other positions are synchronous code, during which nothing else runs.   *)
(***************************************************************************)
EXTENDS Integers, Sequences, FiniteSets, TLC

\* ------------------------------------------------------------------ bounds
\* The clock starts at StartTime and advances in whole days, at most MaxDays.
StartTime == 1
MaxDays == 1
\* A payment buys 1..MaxSubDays days.
MaxSubDays == 1
\* A client instance issues at most MaxCalls calls in the RPC specification.
MaxCalls == 3
\* The runs that examine single store operations make at most MaxOps of them.
MaxOps == 3
\* The runs that examine the load at startup start the process at most MaxBoots
\* times.
MaxBoots == 2
\* The runs of the whole bot and of its scheduler take a new key into
\* paid_subscribers while its entry array holds fewer than MaxSlots slots: ids
\* leave and come back at most that often.
MaxSlots == 3

\* ------------------------------------------------------- program constants
LIFETIME_EXPIRY == 0
TYPE_USER == "user"
TYPE_GROUP == "group"
SecondsPerDay == 24 * 60 * 60

\* Python's None for a threshold field, and a key that the record lacks
\* (dict.get returns None for both).
NoneVal == -1
Missing == -2
\* A record key "type" that is absent.
NoType == "missing"
\* float("nan"), which /setalerts parses like any number: every comparison with
\* it is false.
NaN == -99
FloatLt(a, b) == a # NaN /\ b # NaN /\ a < b
FloatLe(a, b) == a # NaN /\ b # NaN /\ a <= b
FloatGt(a, b) == a # NaN /\ b # NaN /\ a > b
FloatGe(a, b) == a # NaN /\ b # NaN /\ a >= b

\* ------------------------------------------------------------- input sets
UserIds == {1, 2}
\* the individuals who pay and who customise thresholds
Payers == {1}
Customisers == {1}
GroupIds == {3}
BroadcastIds == {4}
Ids == UserIds \cup GroupIds \cup BroadcastIds
\* /setalerts arguments that parse as floats (tenths of MP/s)
ThresholdArgs == {-5, 5, 10}
\* proofrate_value of a fetched snapshot (0 is the insufficient-data value)
ProofrateSamples == {0, 5, 10, 20, 25}
\* proofrate_value of the snapshots that /hashrate fetches
HashrateSamples == {5, 25}
DaysChoices == 1..MaxSubDays
MaxTime == StartTime + MaxDays * SecondsPerDay
MaxExpiry == MaxTime + MaxSubDays * SecondsPerDay

\* get_metrics() returning None, and last_metrics before the first snapshot
NoMetrics == -1

\* An id with no record in paid_subscribers.
NoSub == [type |-> "absent", expiry |-> 0, floor |-> Missing, ceiling |-> Missing]
\* An id with no entry in user_alert_state.
NoState == [present |-> FALSE, floor_triggered |-> FALSE, ceiling_triggered |-> FALSE]
FreshState == [present |-> TRUE, floor_triggered |-> FALSE, ceiling_triggered |-> FALSE]

VARIABLES
    \* --- process-wide state (bot.py 226-236)
    entries,            \* paid_subscribers: the dict's entry array, in insertion
                        \* order; 0 marks the slot of a deleted key
    dk_size,            \* paid_subscribers: the number of slots of its hash table
    subs,               \* paid_subscribers: id -> record (NoSub when absent)
    user_alert_state,   \* id -> latch pair (NoState when absent)
    floor_alert_triggered,
    ceiling_alert_triggered,
    last_metrics,       \* proofrate_value of the last snapshot, or NoMetrics
    alert_chat_ids,     \* config.ALERT_CHAT_IDS
    scenario,           \* which events the run draws: "commands" (individuals issue
                        \* commands and pay), "groups" (the bot joins and leaves
                        \* groups), or one part of the program on its own ("rpc",
                        \* "store", "api", "load", "restart", "config", "sched",
                        \* "scraper", "locator", "churn", "bands"); fixed at
                        \* startup
    clock,              \* int(time.time())
    \* --- one NockBlocksAPI client (scraper.py 66-121)
    request_id,         \* self._request_id
    rpc_pc,             \* "ready", "awaiting" (the POST is in flight) or "returned"
    rpc_method,         \* the method of the call in progress or just returned
    rpc_posts,          \* HTTP requests the call has issued
    rpc_response,       \* what came back for the POST
    rpc_result,         \* what _rpc_call returned
    rpc_raised,         \* the exception that left _rpc_call ("none": it returned)
    fetch,              \* the frame of fetch_metrics or fetch_24h_volume while it
                        \* runs on the client: where it waits and its locals
    \* --- check_and_alert's position and locals
    pc,
    proofrate,          \* metrics.proofrate_value (NoMetrics: fetch failed / unset)
    now,
    it_pos, it_used, it_len,    \* the dict iterator of line 1037
    user_id,            \* loop variable
    floor, ceiling,     \* thresholds read at line 1048
    state,              \* the dict object bound at line 1054
    state_linked,       \* whether user_alert_state[user_id] is still that object
    group_recipients,   \* the set of line 1103
    pending,            \* members of group_recipients the running for-loop has not reached
    msg,                \* which message the send_alert in flight carries
    aborted,            \* the cycle ended by an exception
    \* --- history (not program state)
    n_sent,             \* number of send_alert calls completed in this cycle
    last_sent,          \* the last of them: recipient, audience, message, result
    floor_out,          \* id -> a floor alert was sent and neither a recovery was sent
                        \*       nor the recipient's configuration changed since
    ceiling_out,        \* likewise for the ceiling
    stale,              \* id -> thresholds changed since the cycle last evaluated the id
    \* --- the files (bot.py 44-47) and the process
    disk,               \* paid_subscribers.json
    io,                 \* how the next write of it ends: "ok", "open_fails"
                        \* (IOError before the file is touched) or "write_fails"
                        \* (IOError after open(..., "w") truncated it)
    legacy_chat_ids,    \* chat_ids of the legacy subscribers.json
    legacy_group_ids,   \* group_ids of the legacy group_chats.json
    boots,              \* how many times the process has started
    \* --- history of single operations (not program state)
    last_op,            \* the last store operation or scraper call: what, for
                        \* whom, with what arguments, its outcome
    n_ops,              \* how many were recorded
    \* --- the configuration and the scheduler (config.py, bot.py 1157-1243)
    config,             \* the values config.py read from the environment
    scheduler,          \* the AsyncIOScheduler and its job metrics_check
    \* --- the tip locator
    locator             \* the search for the chain height

storeVars == <<entries, dk_size, subs>>
rpcVars == <<request_id, rpc_pc, rpc_method, rpc_posts, rpc_response, rpc_result,
             rpc_raised, fetch>>
configVars == <<alert_chat_ids, scenario, rpcVars>>
latchVars == <<user_alert_state, floor_alert_triggered, ceiling_alert_triggered>>
localVars == <<proofrate, now, it_pos, it_used, it_len, user_id, floor, ceiling,
               state, state_linked, group_recipients, pending, msg, aborted>>
histVars == <<n_sent, last_sent, floor_out, ceiling_out>>
vars == <<entries, dk_size, subs, user_alert_state, floor_alert_triggered,
          ceiling_alert_triggered, last_metrics, alert_chat_ids, scenario, clock, pc,
          request_id, rpc_pc, rpc_method, rpc_posts, rpc_response, rpc_result, rpc_raised,
          fetch,
          proofrate, now, it_pos, it_used, it_len, user_id, floor, ceiling,
          state, state_linked, group_recipients, pending, msg, aborted,
          n_sent, last_sent, floor_out, ceiling_out, stale,
          disk, io, legacy_chat_ids, legacy_group_ids, boots, last_op, n_ops,
          config, scheduler, locator>>
\* The variables of the bot proper: the store in memory, the latches, the cycle.
botVars == <<entries, dk_size, subs, user_alert_state, floor_alert_triggered,
             ceiling_alert_triggered, last_metrics, alert_chat_ids, scenario, clock, pc,
             request_id, rpc_pc, rpc_method, rpc_posts, rpc_response, rpc_result,
             rpc_raised, fetch, proofrate, now, it_pos, it_used, it_len, user_id, floor,
             ceiling, state, state_linked, group_recipients, pending, msg, aborted,
             n_sent, last_sent, floor_out, ceiling_out, stale>>
legacyVars == <<legacy_chat_ids, legacy_group_ids, boots>>
fileVars == <<disk, io, legacyVars>>
opVars == <<last_op, n_ops>>
envVars == <<config, scheduler, locator>>

\* config.py 20-25: the thresholds of the pooled audience, which are the
\* defaults of the individuals, in tenths of MP/s, and the poll interval.
PROOFRATE_ALERT_FLOOR == config.PROOFRATE_ALERT_FLOOR
PROOFRATE_ALERT_CEILING == config.PROOFRATE_ALERT_CEILING
MONITOR_INTERVAL_MINUTES == config.MONITOR_INTERVAL_MINUTES
\* The numbers when the environment sets none (1.0, 2.0 and 60), with both
\* credentials set.
DefaultConfig ==
    [TELEGRAM_BOT_TOKEN |-> TRUE, NOCKBLOCKS_API_KEY |-> TRUE,
     PROOFRATE_ALERT_FLOOR |-> 10, PROOFRATE_ALERT_CEILING |-> 20,
     MONITOR_INTERVAL_MINUTES |-> 60]

\* The scheduler: whether main() has started it ("unstarted", "started"; "exited"
\* when main() returned without one; "stopped" once on_shutdown has shut it down
\* with the application), how many instances of the job check_and_alert are
\* executing, and what became of the last firing of the interval trigger (kept
\* where the run examines the scheduler).
NotStarted == [state |-> "unstarted", instances |-> 0, last_tick |-> "none",
               last_run |-> "none"]
Started == [state |-> "started", instances |-> 0, last_tick |-> "none",
            last_run |-> "none"]
Ticked(what) == IF scenario = "sched" THEN what ELSE scheduler.last_tick
\* add_job is called without max_instances (bot.py 1198-1205): the scheduler's
\* default, one instance of a job at a time.
max_instances == 1

\* The tip locator when no search was started.
NoSearch == [phase |-> "off", tip |-> 0, low |-> 0, high |-> 0, result |-> NoneVal]

\* Await points of check_and_alert; "idle" is the cycle not running.
AwaitPcs == {"fetch", "send_floor", "send_ceiling", "g_send_floor", "g_send_ceiling"}
HandlerMayRun == pc \in AwaitPcs \cup {"idle"}

\* ------------------------------------------------- the dict paid_subscribers
\* CPython keeps a dict's keys in an entry array in insertion order, beside a
\* hash table of dk_size slots of which two thirds may be used.  Deleting a key
\* blanks its slot and frees nothing.  Inserting a new key appends a slot; when
\* none is left the table is rebuilt first: the blank slots are dropped and
\* the table gets the size the interpreter computes from 3 * len(dict).
PyDict_MINSIZE == 8
USABLE_FRACTION(n) == (2 * n) \div 3

RECURSIVE Compact(_)
Compact(e) ==
    IF e = <<>> THEN <<>>
    ELSE IF Head(e) = 0 THEN Compact(Tail(e))
    ELSE <<Head(e)>> \o Compact(Tail(e))

DictKeys(e) == {e[i] : i \in 1..Len(e)} \ {0}
DictLen(e) == Cardinality(DictKeys(e))
\* dk_usable: the slots of the entry array not yet taken
DictUsable(e, size) == USABLE_FRACTION(size) - Len(e)

\* The smallest power of two that is at least p and at least n.
RECURSIVE PowerOfTwoFrom(_, _)
PowerOfTwoFrom(p, n) == IF p >= n THEN p ELSE PowerOfTwoFrom(2 * p, n)
\* The size of the rebuilt table.  No file of the repository says which Python
\* runs it, and the interpreters differ: CPython 3.11 takes the bit length of
\* ((minsize | 8) - 1) | 7, which is 16 slots already for a dict of one key;
\* CPython 3.13 takes the smallest power of two that holds minsize.
KeySizeOr(minsize) ==
    PowerOfTwoFrom(PyDict_MINSIZE,
                   IF (minsize \div PyDict_MINSIZE) % 2 = 1 THEN minsize
                   ELSE minsize + PyDict_MINSIZE)
KeySizeMax(minsize) == PowerOfTwoFrom(PyDict_MINSIZE, minsize)
GrowthSizes(used) == {KeySizeOr(3 * used), KeySizeMax(3 * used)}

\* paid_subscribers[k] = v: the dicts it may leave
DictInsert(e, size, k) ==
    IF k \in DictKeys(e) THEN {[entries |-> e, size |-> size]}
    ELSE IF DictUsable(e, size) <= 0
    THEN {[entries |-> Append(Compact(e), k), size |-> s] :
            s \in GrowthSizes(DictLen(e))}
    ELSE {[entries |-> Append(e, k), size |-> size]}

\* del paid_subscribers[k]
DictDel(e, k) == [i \in 1..Len(e) |-> IF e[i] = k THEN 0 ELSE e[i]]

\* The dict a process builds from nothing by inserting keys in this order
\* (result = {} and the assignments of load_paid_subscribers).  The table is
\* not rebuilt before its sixth key; past that the smaller table is taken.
RECURSIVE DictBuild(_, _, _)
DictBuild(e, size, keys) ==
    IF keys = <<>> THEN [entries |-> e, size |-> size]
    ELSE LET d == CHOOSE x \in DictInsert(e, size, Head(keys)) :
                    \A y \in DictInsert(e, size, Head(keys)) : x.size <= y.size
         IN  DictBuild(d.entries, d.size, Tail(keys))

\* ------------------------------------------------------------ store reads
\* is_subscription_active were the comparison with the clock inclusive
IsActiveInclusive(u) ==
    IF subs[u] = NoSub THEN FALSE
    ELSE IF subs[u].expiry = LIFETIME_EXPIRY THEN TRUE
    ELSE subs[u].expiry >= clock

is_subscription_active(u) ==
    IF subs[u] = NoSub THEN FALSE
    ELSE IF subs[u].expiry = LIFETIME_EXPIRY THEN TRUE
    ELSE subs[u].expiry > clock

UserFloor(sub) ==
    IF sub.floor \notin {NoneVal, Missing} THEN sub.floor ELSE PROOFRATE_ALERT_FLOOR
\* the ceiling were the custom value ignored
UserCeilingDefault(sub) == PROOFRATE_ALERT_CEILING
UserCeiling(sub) ==
    IF sub.ceiling \notin {NoneVal, Missing} THEN sub.ceiling ELSE PROOFRATE_ALERT_CEILING
get_user_thresholds(u) == <<UserFloor(subs[u]), UserCeiling(subs[u])>>

\* get_group_chats without the test of the record's type.
get_all_chats == DictKeys(entries)

get_group_chats == {k \in DictKeys(entries) : subs[k].type = TYPE_GROUP}

\* ---------------------------------------------------------------- history
\* u's configuration changed: what was announced before no longer counts.
ForgetAnnounced(u) ==
    /\ floor_out' = [floor_out EXCEPT ![u] = FALSE]
    /\ ceiling_out' = [ceiling_out EXCEPT ![u] = FALSE]

\* A handler that changes u's configuration and leaves user_alert_state[u] alone.
KeepAlertState(u) == UNCHANGED <<user_alert_state, state_linked>>

\* del user_alert_state[u] (when present).  A cycle suspended in a send_alert
\* for u keeps the deleted object as its local `state`.
DropAlertState(u) ==
    /\ user_alert_state' = [user_alert_state EXCEPT ![u] = NoState]
    /\ state_linked' =
         IF pc \in {"send_floor", "send_ceiling"} /\ user_id = u
         THEN FALSE ELSE state_linked

cycleLocalsButLink == <<proofrate, now, it_pos, it_used, it_len, user_id, floor,
                        ceiling, state, group_recipients, pending, msg, aborted>>
cycleHist == <<n_sent, last_sent>>
globalLatch == <<floor_alert_triggered, ceiling_alert_triggered>>

\* ------------------------------------------------------------ persistence
\* json.dump writes the int keys of paid_subscribers as strings and int(k)
\* reads them back; a key is modelled by its decimal digits.
RECURSIVE Str(_)
Str(n) == IF n < 10 THEN <<n>> ELSE Str(n \div 10) \o <<n % 10>>

RECURSIVE IntOf(_)
IntOf(k) ==
    IF Len(k) = 0 THEN 0
    ELSE 10 * IntOf(SubSeq(k, 1, Len(k) - 1)) + k[Len(k)]

\* A record as a member of the JSON object "subscribers": None is null
\* (NoneVal); a key the record lacks is absent from the object too (Missing,
\* NoType).  The legacy format has a bare expiry in place of the object.
JsonOf(rec) ==
    [shape |-> "object", type |-> rec.type, expiry |-> rec.expiry,
     floor |-> rec.floor, ceiling |-> rec.ceiling]
BareExpiry(n) ==
    [shape |-> "int", type |-> NoType, expiry |-> n,
     floor |-> Missing, ceiling |-> Missing]

\* json.dump({"subscribers": paid_subscribers}, f): the members are written
\* in the order of the dict, and json.load reads them back in that order.
Dump(e, s) ==
    [state |-> "json",
     order |-> [i \in 1..Len(Compact(e)) |-> Str(Compact(e)[i])],
     subscribers |-> [k \in {Str(i) : i \in DictKeys(e)} |-> JsonOf(s[IntOf(k)])]]
\* The file after open(..., "w") succeeded and the write failed: not JSON.
Truncated == [state |-> "truncated", order |-> <<>>, subscribers |-> <<>>]
\* No file, which loads like a document without subscribers.
EmptyDoc == [state |-> "json", order |-> <<>>, subscribers |-> <<>>]

\* save_paid_subscribers were it called ahead of the mutation
SaveBeforeMutation(e) ==
    disk' = CASE io = "ok" -> Dump(entries, subs)
              [] io = "open_fails" -> disk
              [] OTHER -> Truncated

\* save_paid_subscribers (bot.py 137-143), called once the mutation of the
\* store is done: e is the entry array after it; IOError is logged.
save_paid_subscribers(e) ==
    disk' = CASE io = "ok" -> Dump(e, subs')
              [] io = "open_fails" -> disk
              [] OTHER -> Truncated

\* ------------------------------------------------- history of operations
\* The runs that examine single operations record each of them: its
\* arguments, its outcome, the value it returned (0: none) and whether it
\* called save_paid_subscribers.
NoOp == [op |-> "none", id |-> 0, arg |-> <<>>, result |-> "none", ret |-> 0,
         saved |-> FALSE]
Record(op, id, arg, result, ret, saved) ==
    IF scenario \in {"store", "api", "load", "scraper", "restart"}
    THEN /\ last_op' = [op |-> op, id |-> id, arg |-> arg, result |-> result,
                        ret |-> ret, saved |-> saved]
         /\ n_ops' = n_ops + 1
    ELSE UNCHANGED <<last_op, n_ops>>

\* ------------------------------------------------------- command handlers
\* set_user_thresholds were both fields assigned whatever was passed
SetUserThresholdsOverwrite(u, f, c) ==
    IF subs[u] = NoSub
    THEN UNCHANGED <<subs, disk>>
    ELSE /\ subs' = [subs EXCEPT ![u].floor = f, ![u].ceiling = c]
         /\ save_paid_subscribers(entries)

\* set_user_thresholds (bot.py 185-200); NoneVal for a bound leaves it alone.
set_user_thresholds(u, f, c) ==
    IF subs[u] = NoSub
    THEN UNCHANGED <<subs, disk>>
    ELSE /\ subs' = [subs EXCEPT
                       ![u].floor = IF f # NoneVal THEN f ELSE @,
                       ![u].ceiling = IF c # NoneVal THEN c ELSE @]
         /\ save_paid_subscribers(entries)

\* An argument of a command is a token that float() parses (its value) or
\* one it rejects (bot.py 599-608).
NotANumber == [parses |-> FALSE, value |-> 0]
Numeral(v) == [parses |-> TRUE, value |-> v]
ParsesAsFloat(tok) == tok.parses

\* the validation of /setalerts without the comparison of the two bounds
SetAlertsResultUnordered(u, f, c) ==
    IF ~is_subscription_active(u) THEN "inactive"
    ELSE IF FloatLt(f, 0) \/ FloatLt(c, 0) THEN "negative"
    ELSE "ok"

\* /setalerts <f> <c>  (bot.py 567-640), the arguments being two numbers
SetAlertsResult(u, f, c) ==
    IF ~is_subscription_active(u) THEN "inactive"
    ELSE IF FloatLt(f, 0) \/ FloatLt(c, 0) THEN "negative"
    ELSE IF FloatGe(f, c) THEN "order"
    ELSE "ok"

SetAlerts(u, f, c) ==
    /\ HandlerMayRun
    /\ IF SetAlertsResult(u, f, c) = "ok"
       THEN /\ set_user_thresholds(u, f, c)
            /\ DropAlertState(u)
            /\ ForgetAnnounced(u)
            /\ stale' = [stale EXCEPT ![u] =
                            stale[u] \/ <<f, c>> # get_user_thresholds(u)]
            /\ UNCHANGED <<entries, dk_size, globalLatch, last_metrics, configVars, clock,
                           pc, cycleLocalsButLink, cycleHist>>
       ELSE UNCHANGED <<botVars, disk>>
    /\ Record("setalerts", u, <<Numeral(f), Numeral(c)>>,
              SetAlertsResult(u, f, c), 0,
              SetAlertsResult(u, f, c) = "ok")
    /\ UNCHANGED <<io, legacyVars, envVars>>

\* /setalerts with any arguments (bot.py 567-640)
setalerts(u, args) ==
    IF ~is_subscription_active(u)
    THEN /\ HandlerMayRun
         /\ UNCHANGED <<botVars, fileVars, envVars>>
         /\ Record("setalerts", u, args, "inactive", 0, FALSE)
    ELSE IF Len(args) # 2
    THEN /\ HandlerMayRun
         /\ UNCHANGED <<botVars, fileVars, envVars>>
         /\ Record("setalerts", u, args, "usage", 0, FALSE)
    ELSE IF ~ParsesAsFloat(args[1]) \/ ~ParsesAsFloat(args[2])
    THEN /\ HandlerMayRun
         /\ UNCHANGED <<botVars, fileVars, envVars>>
         /\ Record("setalerts", u, args, "invalid", 0, FALSE)
    ELSE SetAlerts(u, args[1].value, args[2].value)

\* /resetalerts without the test of the subscription: any record is reset.
ResetAlertsUnguarded(u) ==
    /\ HandlerMayRun
    /\ IF subs[u] # NoSub
       THEN /\ subs' = [subs EXCEPT ![u].floor = NoneVal, ![u].ceiling = NoneVal]
            /\ DropAlertState(u)
            /\ ForgetAnnounced(u)
            /\ stale' = [stale EXCEPT ![u] =
                            stale[u] \/ <<PROOFRATE_ALERT_FLOOR, PROOFRATE_ALERT_CEILING>>
                                          # get_user_thresholds(u)]
            /\ UNCHANGED <<entries, dk_size, globalLatch, last_metrics, configVars, clock,
                           pc, cycleLocalsButLink, cycleHist>>
            /\ save_paid_subscribers(entries)
       ELSE UNCHANGED <<botVars, disk>>
    /\ Record("resetalerts", u, <<>>,
              IF subs[u] # NoSub THEN "ok" ELSE "inactive", 0,
              subs[u] # NoSub)
    /\ UNCHANGED <<io, legacyVars, envVars>>

\* /resetalerts  (bot.py 643-671)
ResetAlerts(u) ==
    /\ HandlerMayRun
    /\ IF is_subscription_active(u)
       THEN /\ subs' = [subs EXCEPT ![u].floor = NoneVal, ![u].ceiling = NoneVal]
            /\ DropAlertState(u)
            /\ ForgetAnnounced(u)
            /\ stale' = [stale EXCEPT ![u] =
                            stale[u] \/ <<PROOFRATE_ALERT_FLOOR, PROOFRATE_ALERT_CEILING>>
                                          # get_user_thresholds(u)]
            /\ UNCHANGED <<entries, dk_size, globalLatch, last_metrics, configVars, clock,
                           pc, cycleLocalsButLink, cycleHist>>
            /\ save_paid_subscribers(entries)
       ELSE UNCHANGED <<botVars, disk>>
    /\ Record("resetalerts", u, <<>>,
              IF is_subscription_active(u) THEN "ok" ELSE "inactive", 0,
              is_subscription_active(u))
    /\ UNCHANGED <<io, legacyVars, envVars>>

\* /unsubscribe  (bot.py 410-448)
Unsubscribe(u) ==
    /\ HandlerMayRun
    /\ IF subs[u] # NoSub
       THEN /\ entries' = DictDel(entries, u)
            /\ dk_size' = dk_size
            /\ subs' = [subs EXCEPT ![u] = NoSub]
            /\ save_paid_subscribers(DictDel(entries, u))
       ELSE UNCHANGED <<entries, dk_size, subs, disk>>
    /\ DropAlertState(u)
    /\ ForgetAnnounced(u)
    /\ stale' = [stale EXCEPT ![u] = FALSE]
    /\ UNCHANGED <<globalLatch, last_metrics, configVars, clock,
                   pc, cycleLocalsButLink, cycleHist>>
    /\ Record("unsubscribe", u, <<>>, "ok", 0, subs[u] # NoSub)
    /\ UNCHANGED <<io, legacyVars, envVars>>

\* activate_subscription  (bot.py 203-223); it returns NewExpiry(u, days)
\* the new expiry were a running subscription not extended from its end
NewExpiryFromNow(u, days) == clock + (days * 24 * 60 * 60)

NewExpiry(u, days) ==
    LET current_expiry == IF subs[u] = NoSub THEN 0 ELSE subs[u].expiry
        base_time == IF current_expiry > clock THEN current_expiry ELSE clock
    IN  base_time + (days * 24 * 60 * 60)

activate_subscription(u, days) ==
    /\ subs' = [subs EXCEPT ![u] =
                  IF subs[u] = NoSub
                  THEN [type |-> NoType, expiry |-> NewExpiry(u, days),
                        floor |-> Missing, ceiling |-> Missing]
                  ELSE [subs[u] EXCEPT !.expiry = NewExpiry(u, days)]]
    /\ \E d \in DictInsert(entries, dk_size, u) :
         /\ entries' = d.entries
         /\ dk_size' = d.size
         /\ save_paid_subscribers(d.entries)

\* successful_payment_callback  (bot.py 842-876)
SuccessfulPayment(u, days) ==
    /\ HandlerMayRun
    /\ NewExpiry(u, days) <= MaxExpiry
    /\ activate_subscription(u, days)
    /\ UNCHANGED <<latchVars, last_metrics, configVars, clock, pc, localVars,
                   histVars, stale>>
    /\ Record("activate", u, <<days>>, "ok", NewExpiry(u, days), TRUE)
    /\ UNCHANGED <<io, legacyVars, envVars>>

\* track_chat_membership, the bot added to a group  (bot.py 984-994)
GroupJoin(g) ==
    /\ HandlerMayRun
    /\ IF subs[g] = NoSub \/ subs[g].type # TYPE_GROUP
       THEN /\ subs' = [subs EXCEPT ![g] =
                          [type |-> TYPE_GROUP, expiry |-> LIFETIME_EXPIRY,
                           floor |-> NoneVal, ceiling |-> NoneVal]]
            /\ \E d \in DictInsert(entries, dk_size, g) :
                 /\ entries' = d.entries
                 /\ dk_size' = d.size
                 /\ save_paid_subscribers(d.entries)
       ELSE UNCHANGED <<entries, dk_size, subs, disk>>
    /\ UNCHANGED <<latchVars, last_metrics, configVars, clock, pc, localVars,
                   histVars, stale>>
    /\ Record("group_add", g, <<>>, "ok", 0,
              subs[g] = NoSub \/ subs[g].type # TYPE_GROUP)
    /\ UNCHANGED <<io, legacyVars, envVars>>

\* track_chat_membership, the bot removed from a group  (bot.py 995-1000)
GroupLeave(g) ==
    /\ HandlerMayRun
    /\ IF subs[g] # NoSub /\ subs[g].type = TYPE_GROUP
       THEN /\ subs' = [subs EXCEPT ![g] = NoSub]
            /\ entries' = DictDel(entries, g)
            /\ dk_size' = dk_size
            /\ save_paid_subscribers(DictDel(entries, g))
       ELSE UNCHANGED <<entries, dk_size, subs, disk>>
    /\ UNCHANGED <<latchVars, last_metrics, configVars, clock, pc, localVars,
                   histVars, stale>>
    /\ Record("group_remove", g, <<>>, "ok", 0,
              subs[g] # NoSub /\ subs[g].type = TYPE_GROUP)
    /\ UNCHANGED <<io, legacyVars, envVars>>

\* time.time() moves on
AdvanceClock ==
    /\ HandlerMayRun
    /\ clock + SecondsPerDay <= MaxTime
    /\ clock' = clock + SecondsPerDay
    /\ UNCHANGED <<storeVars, latchVars, last_metrics, configVars, pc, localVars,
                   histVars, stale>>
    /\ UNCHANGED <<fileVars, opVars, envVars>>

\* /hashrate, /proofrate and the "hashrate" button  (bot.py 322-345, 759-778):
\* the snapshot get_metrics() returned becomes last_metrics; None is reported to
\* the chat and nothing is stored.
hashrate(res) ==
    /\ HandlerMayRun
    /\ last_metrics' = IF res = NoMetrics THEN last_metrics ELSE res
    /\ UNCHANGED <<storeVars, latchVars, configVars, clock, pc, localVars,
                   histVars, stale>>
    /\ UNCHANGED <<fileVars, opVars, envVars>>

\* ------------------------------------------------- check_and_alert, the cycle
handlerVars == <<storeVars, configVars, clock>>

\* The interval trigger fires and the scheduler submits the job whatever
\* instances of it are executing.
TickAlways ==
    /\ scheduler.state = "started"
    /\ scheduler.instances < 2
    /\ pc' = IF pc = "idle" THEN "fetch" ELSE pc
    /\ scheduler' = [scheduler EXCEPT !.instances = @ + 1, !.last_tick = Ticked("run")]
    /\ UNCHANGED <<handlerVars, latchVars, last_metrics, localVars, n_sent, last_sent,
                   floor_out, ceiling_out, stale>>
    /\ UNCHANGED <<fileVars, opVars, config, locator>>

\* The interval trigger fires and the scheduler starts a cycle: no instance
\* of the job is executing  (bot.py 1197-1205, 1018-1023)
Tick ==
    /\ scheduler.state = "started"
    /\ scheduler.instances < max_instances
    /\ pc' = "fetch"
    /\ scheduler' = [scheduler EXCEPT !.instances = @ + 1, !.last_tick = Ticked("run")]
    /\ UNCHANGED <<handlerVars, latchVars, last_metrics, localVars, n_sent, last_sent,
                   floor_out, ceiling_out, stale>>
    /\ UNCHANGED <<fileVars, opVars, config, locator>>

\* The interval trigger fires while the job is executing: the scheduler logs
\* that the maximum number of instances is reached and skips the run.
SkippedTick ==
    /\ scheduler.state = "started"
    /\ scheduler.instances >= max_instances
    /\ scheduler' = [scheduler EXCEPT !.last_tick = Ticked("skipped")]
    /\ UNCHANGED <<botVars, fileVars, opVars, config, locator>>

\* check_and_alert storing the result of get_metrics() before it tests it.
FetchDoneStoresFirst(res) ==
    /\ pc = "fetch"
    /\ last_metrics' = res
    /\ IF res = NoMetrics
       THEN /\ pc' = "done"
            /\ UNCHANGED <<proofrate, now, it_pos, it_used, it_len>>
       ELSE /\ pc' = "loop"
            /\ proofrate' = res
            /\ now' = clock
            /\ it_pos' = 0
            /\ it_used' = DictLen(entries)
            /\ it_len' = DictLen(entries)
    /\ UNCHANGED <<handlerVars, latchVars, user_id, floor, ceiling, state,
                   state_linked, group_recipients, pending, msg, aborted,
                   histVars, stale>>
    /\ UNCHANGED <<fileVars, opVars, envVars>>

\* get_metrics() returns  (bot.py 1023-1037): a failed fetch ends the cycle,
\* a snapshot is stored and the loop over paid_subscribers.items() starts.
FetchDone(res) ==
    /\ pc = "fetch"
    /\ IF res = NoMetrics
       THEN /\ pc' = "done"
            /\ UNCHANGED <<last_metrics, proofrate, now, it_pos, it_used, it_len>>
       ELSE /\ pc' = "loop"
            /\ last_metrics' = res
            /\ proofrate' = res
            /\ now' = clock
            /\ it_pos' = 0
            /\ it_used' = DictLen(entries)
            /\ it_len' = DictLen(entries)
    /\ UNCHANGED <<handlerVars, latchVars, user_id, floor, ceiling, state,
                   state_linked, group_recipients, pending, msg, aborted,
                   histVars, stale>>
    /\ UNCHANGED <<fileVars, opVars, envVars>>

\* The slot the dict iterator stops at next (0: none left).
NextSlot ==
    LET live == {i \in (it_pos + 1)..Len(entries) : entries[i] # 0}
    IN  IF live = {} THEN 0 ELSE CHOOSE i \in live : \A j \in live : i <= j

\* The test of line 1044 with < for <=.
LapsedStrict(sub, t) == sub.expiry # LIFETIME_EXPIRY /\ sub.expiry < t

\* Line 1044: the subscription has lapsed.
Lapsed(sub, t) == sub.expiry # LIFETIME_EXPIRY /\ sub.expiry <= t

\* What one step of `for user_id, sub in paid_subscribers.items()` does:
\* "error" (RuntimeError: the dict changed during iteration), "end" (loop over),
\* "skip" (a group or a lapsed subscription) or "eval".
LoopOutcome ==
    IF it_used # DictLen(entries) THEN "error"
    ELSE IF NextSlot = 0 THEN "end"
    ELSE IF it_len = 0 THEN "error"
    ELSE IF subs[entries[NextSlot]].type = TYPE_GROUP THEN "skip"
    ELSE IF Lapsed(subs[entries[NextSlot]], now) THEN "skip"
    ELSE "eval"

\* The locals of one loop iteration are dead once it ends.
ClearUserLocals ==
    /\ user_id' = 0
    /\ floor' = 0 /\ ceiling' = 0
    /\ state' = NoState
    /\ state_linked' = FALSE
    /\ msg' = "none"

\* bot.py 1037-1054
LoopNext ==
    /\ pc = "loop"
    /\ LET out == LoopOutcome
           uid == IF NextSlot = 0 THEN 0 ELSE entries[NextSlot]
       IN
       /\ pc' = CASE out = "error" -> "done"
                  [] out = "end"   -> "g_floor"
                  [] out = "skip"  -> "loop"
                  [] OTHER         -> "floor"
       /\ aborted' = (out = "error")
       /\ IF out \in {"skip", "eval"}
          THEN /\ it_pos' = NextSlot /\ it_len' = it_len - 1
               /\ UNCHANGED it_used
          ELSE /\ it_pos' = 0 /\ it_len' = 0 /\ it_used' = 0
       /\ IF out = "eval"
          THEN /\ user_id' = uid
               /\ floor' = UserFloor(subs[uid])
               /\ ceiling' = UserCeiling(subs[uid])
               /\ user_alert_state' =
                    IF user_alert_state[uid].present THEN user_alert_state
                    ELSE [user_alert_state EXCEPT ![uid] = FreshState]
               /\ state' = user_alert_state'[uid]
               /\ state_linked' = TRUE
               /\ stale' = [stale EXCEPT ![uid] = FALSE]
          ELSE UNCHANGED <<user_id, floor, ceiling, user_alert_state, state,
                           state_linked, stale>>
    /\ UNCHANGED <<storeVars, configVars, clock, globalLatch, last_metrics,
                   proofrate, now, group_recipients, pending, msg, histVars>>
    /\ UNCHANGED <<fileVars, opVars, envVars>>

\* state[key] = v: the object is the one in user_alert_state unless a handler
\* deleted that entry meanwhile.
WriteState(newstate) ==
    /\ state' = newstate
    /\ user_alert_state' =
         IF state_linked THEN [user_alert_state EXCEPT ![user_id] = newstate]
         ELSE user_alert_state

\* The floor evaluation alerting whenever the proofrate is below the floor,
\* whatever the latch says.
EvalFloorUnlatched ==
    /\ pc = "floor"
    /\ IF proofrate < floor
       THEN /\ WriteState([state EXCEPT !.floor_triggered = TRUE])
            /\ msg' = "low"
            /\ pc' = "send_floor"
       ELSE IF proofrate >= floor /\ state.floor_triggered
       THEN /\ WriteState([state EXCEPT !.floor_triggered = FALSE])
            /\ msg' = "recovered"
            /\ pc' = "send_floor"
       ELSE /\ pc' = "ceiling"
            /\ UNCHANGED <<state, user_alert_state, msg>>
    /\ UNCHANGED <<handlerVars, globalLatch, last_metrics, proofrate, now, it_pos,
                   it_used, it_len, user_id, floor, ceiling, state_linked,
                   group_recipients, pending, aborted, histVars, stale>>
    /\ UNCHANGED <<fileVars, opVars, envVars>>

\* The floor evaluation with <= for < and > for >=.
EvalFloorInclusive ==
    /\ pc = "floor"
    /\ IF proofrate <= floor /\ ~state.floor_triggered
       THEN /\ WriteState([state EXCEPT !.floor_triggered = TRUE])
            /\ msg' = "low"
            /\ pc' = "send_floor"
       ELSE IF proofrate > floor /\ state.floor_triggered
       THEN /\ WriteState([state EXCEPT !.floor_triggered = FALSE])
            /\ msg' = "recovered"
            /\ pc' = "send_floor"
       ELSE /\ pc' = "ceiling"
            /\ UNCHANGED <<state, user_alert_state, msg>>
    /\ UNCHANGED <<handlerVars, globalLatch, last_metrics, proofrate, now, it_pos,
                   it_used, it_len, user_id, floor, ceiling, state_linked,
                   group_recipients, pending, aborted, histVars, stale>>
    /\ UNCHANGED <<fileVars, opVars, envVars>>

\* bot.py 1056-1077: the floor latch of the individual recipient user_id
EvalFloor ==
    /\ pc = "floor"
    /\ IF FloatLt(proofrate, floor) /\ ~state.floor_triggered
       THEN /\ WriteState([state EXCEPT !.floor_triggered = TRUE])
            /\ msg' = "low"
            /\ pc' = "send_floor"
       ELSE IF FloatGe(proofrate, floor) /\ state.floor_triggered
       THEN /\ WriteState([state EXCEPT !.floor_triggered = FALSE])
            /\ msg' = "recovered"
            /\ pc' = "send_floor"
       ELSE /\ pc' = "ceiling"
            /\ UNCHANGED <<state, user_alert_state, msg>>
    /\ UNCHANGED <<handlerVars, globalLatch, last_metrics, proofrate, now, it_pos,
                   it_used, it_len, user_id, floor, ceiling, state_linked,
                   group_recipients, pending, aborted, histVars, stale>>
    /\ UNCHANGED <<fileVars, opVars, envVars>>

NoSend == [to |-> 0, stream |-> "none", kind |-> "none", ok |-> TRUE]
Sent(to, stream, ok) ==
    /\ n_sent' = n_sent + 1
    /\ last_sent' = [to |-> to, stream |-> stream, kind |-> msg, ok |-> ok]

\* send_alert (bot.py 1003-1015) returns: ok is whether the message went out.
\* The notification is recorded; the latch it came from is not revisited.
Announced(to, kind) ==
    /\ floor_out' = CASE kind = "low" -> [floor_out EXCEPT ![to] = TRUE]
                      [] kind = "recovered" -> [floor_out EXCEPT ![to] = FALSE]
                      [] OTHER -> floor_out
    /\ ceiling_out' = CASE kind = "high" -> [ceiling_out EXCEPT ![to] = TRUE]
                        [] kind = "normalized" -> [ceiling_out EXCEPT ![to] = FALSE]
                        [] OTHER -> ceiling_out
Announce(to, kind) ==
    IF ~state_linked THEN UNCHANGED <<floor_out, ceiling_out>>
    ELSE Announced(to, kind)

\* The ceiling evaluation as an elif of the floor evaluation: skipped once the
\* floor branch has sent.
SendFloorDoneSkipsCeiling(ok) ==
    /\ pc = "send_floor"
    /\ Sent(user_id, "user", ok)
    /\ Announce(user_id, msg)
    /\ pc' = "loop"
    /\ ClearUserLocals
    /\ UNCHANGED <<handlerVars, latchVars, last_metrics, proofrate, now, it_pos,
                   it_used, it_len, group_recipients, pending, aborted,
                   stale>>
    /\ UNCHANGED <<fileVars, opVars, envVars>>

\* send_alert letting the delivery error out: the exception ends the cycle.
SendFloorDoneRaises(ok) ==
    /\ pc = "send_floor"
    /\ Sent(user_id, "user", ok)
    /\ Announce(user_id, msg)
    /\ pc' = IF ok THEN "ceiling" ELSE "done"
    /\ aborted' = ~ok
    /\ UNCHANGED <<handlerVars, latchVars, last_metrics, proofrate, now, it_pos,
                   it_used, it_len, user_id, floor, ceiling, state, state_linked,
                   group_recipients, pending, msg, stale>>
    /\ UNCHANGED <<fileVars, opVars, envVars>>

SendFloorDone(ok) ==
    /\ pc = "send_floor"
    /\ Sent(user_id, "user", ok)
    /\ Announce(user_id, msg)
    /\ pc' = "ceiling"
    /\ UNCHANGED <<handlerVars, latchVars, last_metrics, localVars,
                   stale>>
    /\ UNCHANGED <<fileVars, opVars, envVars>>

\* The ceiling evaluation without its elif: the latch is set and never cleared.
EvalCeilingSticky ==
    /\ pc = "ceiling"
    /\ IF FloatGt(proofrate, ceiling) /\ ~state.ceiling_triggered
       THEN /\ WriteState([state EXCEPT !.ceiling_triggered = TRUE])
            /\ msg' = "high"
            /\ pc' = "send_ceiling"
            /\ UNCHANGED <<user_id, floor, ceiling, state_linked>>
       ELSE /\ pc' = "loop"
            /\ ClearUserLocals
            /\ UNCHANGED user_alert_state
    /\ UNCHANGED <<handlerVars, globalLatch, last_metrics, proofrate, now, it_pos,
                   it_used, it_len, group_recipients, pending, aborted, histVars,
                   stale>>
    /\ UNCHANGED <<fileVars, opVars, envVars>>

\* bot.py 1079-1100: the ceiling latch of the individual recipient user_id
EvalCeiling ==
    /\ pc = "ceiling"
    /\ IF FloatGt(proofrate, ceiling) /\ ~state.ceiling_triggered
       THEN /\ WriteState([state EXCEPT !.ceiling_triggered = TRUE])
            /\ msg' = "high"
            /\ pc' = "send_ceiling"
            /\ UNCHANGED <<user_id, floor, ceiling, state_linked>>
       ELSE IF FloatLe(proofrate, ceiling) /\ state.ceiling_triggered
       THEN /\ WriteState([state EXCEPT !.ceiling_triggered = FALSE])
            /\ msg' = "normalized"
            /\ pc' = "send_ceiling"
            /\ UNCHANGED <<user_id, floor, ceiling, state_linked>>
       ELSE /\ pc' = "loop"
            /\ ClearUserLocals
            /\ UNCHANGED user_alert_state
    /\ UNCHANGED <<handlerVars, globalLatch, last_metrics, proofrate, now, it_pos,
                   it_used, it_len, group_recipients, pending, aborted, histVars,
                   stale>>
    /\ UNCHANGED <<fileVars, opVars, envVars>>

SendCeilingDone(ok) ==
    /\ pc = "send_ceiling"
    /\ Sent(user_id, "user", ok)
    /\ Announce(user_id, msg)
    /\ pc' = "loop"
    /\ ClearUserLocals
    /\ UNCHANGED <<handlerVars, latchVars, last_metrics, proofrate, now, it_pos,
                   it_used, it_len, group_recipients, pending, aborted,
                   stale>>
    /\ UNCHANGED <<fileVars, opVars, envVars>>

\* bot.py 1102-1129: the pooled audience, floor
GroupFloor ==
    /\ pc = "g_floor"
    /\ LET recipients == alert_chat_ids \cup get_group_chats IN
       /\ group_recipients' = recipients
       /\ IF recipients = {}
          THEN /\ pc' = "done"
               /\ UNCHANGED <<floor_alert_triggered, pending, msg>>
          ELSE IF proofrate < PROOFRATE_ALERT_FLOOR /\ ~floor_alert_triggered
          THEN /\ floor_alert_triggered' = TRUE
               /\ msg' = "low"
               /\ pending' = recipients
               /\ pc' = "g_send_floor"
          ELSE IF proofrate >= PROOFRATE_ALERT_FLOOR /\ floor_alert_triggered
          THEN /\ floor_alert_triggered' = FALSE
               /\ msg' = "recovered"
               /\ pending' = recipients
               /\ pc' = "g_send_floor"
          ELSE /\ pc' = "g_ceiling"
               /\ UNCHANGED <<floor_alert_triggered, pending, msg>>
    /\ UNCHANGED <<handlerVars, user_alert_state, ceiling_alert_triggered,
                   last_metrics, proofrate, now, it_pos, it_used, it_len, user_id,
                   floor, ceiling, state, state_linked, aborted, histVars, stale>>
    /\ UNCHANGED <<fileVars, opVars, envVars>>

\* One send_alert of `for chat_id in group_recipients` returns.
GroupSendFloorDone(chat_id, ok) ==
    /\ pc = "g_send_floor"
    /\ chat_id \in pending
    /\ Sent(chat_id, "pool", ok)
    /\ Announced(chat_id, msg)
    /\ pending' = pending \ {chat_id}
    /\ pc' = IF pending' = {} THEN "g_ceiling" ELSE "g_send_floor"
    /\ UNCHANGED <<handlerVars, latchVars, last_metrics, proofrate, now, it_pos,
                   it_used, it_len, user_id, floor, ceiling, state, state_linked,
                   group_recipients, msg, aborted, stale>>
    /\ UNCHANGED <<fileVars, opVars, envVars>>

\* The pool's ceiling evaluation without its elif: the latch is never cleared.
GroupCeilingSticky ==
    /\ pc = "g_ceiling"
    /\ IF proofrate > PROOFRATE_ALERT_CEILING /\ ~ceiling_alert_triggered
       THEN /\ ceiling_alert_triggered' = TRUE
            /\ msg' = "high"
            /\ pending' = group_recipients
            /\ pc' = "g_send_ceiling"
       ELSE /\ pc' = "done"
            /\ UNCHANGED <<ceiling_alert_triggered, pending, msg>>
    /\ UNCHANGED <<handlerVars, user_alert_state, floor_alert_triggered,
                   last_metrics, proofrate, now, it_pos, it_used, it_len, user_id,
                   floor, ceiling, state, state_linked, group_recipients, aborted,
                   histVars, stale>>
    /\ UNCHANGED <<fileVars, opVars, envVars>>

\* bot.py 1131-1154: the pooled audience, ceiling
GroupCeiling ==
    /\ pc = "g_ceiling"
    /\ IF proofrate > PROOFRATE_ALERT_CEILING /\ ~ceiling_alert_triggered
       THEN /\ ceiling_alert_triggered' = TRUE
            /\ msg' = "high"
            /\ pending' = group_recipients
            /\ pc' = "g_send_ceiling"
       ELSE IF proofrate <= PROOFRATE_ALERT_CEILING /\ ceiling_alert_triggered
       THEN /\ ceiling_alert_triggered' = FALSE
            /\ msg' = "normalized"
            /\ pending' = group_recipients
            /\ pc' = "g_send_ceiling"
       ELSE /\ pc' = "done"
            /\ UNCHANGED <<ceiling_alert_triggered, pending, msg>>
    /\ UNCHANGED <<handlerVars, user_alert_state, floor_alert_triggered,
                   last_metrics, proofrate, now, it_pos, it_used, it_len, user_id,
                   floor, ceiling, state, state_linked, group_recipients, aborted,
                   histVars, stale>>
    /\ UNCHANGED <<fileVars, opVars, envVars>>

GroupSendCeilingDone(chat_id, ok) ==
    /\ pc = "g_send_ceiling"
    /\ chat_id \in pending
    /\ Sent(chat_id, "pool", ok)
    /\ Announced(chat_id, msg)
    /\ pending' = pending \ {chat_id}
    /\ pc' = IF pending' = {} THEN "done" ELSE "g_send_ceiling"
    /\ UNCHANGED <<handlerVars, latchVars, last_metrics, proofrate, now, it_pos,
                   it_used, it_len, user_id, floor, ceiling, state, state_linked,
                   group_recipients, msg, aborted, stale>>
    /\ UNCHANGED <<fileVars, opVars, envVars>>

\* The locals of check_and_alert while no cycle runs.
InitLocals ==
    /\ proofrate = NoMetrics
    /\ now = 0
    /\ it_pos = 0 /\ it_used = 0 /\ it_len = 0
    /\ user_id = 0
    /\ floor = 0 /\ ceiling = 0
    /\ state = NoState
    /\ state_linked = FALSE
    /\ group_recipients = {}
    /\ pending = {}
    /\ msg = "none"
    /\ aborted = FALSE

InitCycleHist ==
    /\ n_sent = 0
    /\ last_sent = NoSend

\* How the cycle that is about to return went: an exception left it, the fetch
\* gave no snapshot, its last send_alert failed, or none of these.
Outcome ==
    IF aborted THEN "error"
    ELSE IF proofrate = NoMetrics THEN "no_metrics"
    ELSE IF n_sent > 0 /\ ~last_sent.ok THEN "send_failed"
    ELSE "ok"
Ran(how) == IF scenario = "sched" THEN how ELSE scheduler.last_run

\* check_and_alert returning were an exception in it to end the job
ReturnUnschedules ==
    /\ pc = "done"
    /\ pc' = "idle"
    /\ proofrate' = NoMetrics
    /\ now' = 0
    /\ it_pos' = 0 /\ it_used' = 0 /\ it_len' = 0
    /\ user_id' = 0
    /\ floor' = 0 /\ ceiling' = 0
    /\ state' = NoState
    /\ state_linked' = FALSE
    /\ group_recipients' = {}
    /\ pending' = {}
    /\ msg' = "none"
    /\ aborted' = FALSE
    /\ n_sent' = 0
    /\ last_sent' = NoSend
    /\ scheduler' = [scheduler EXCEPT !.instances = @ - 1, !.last_run = Ran(Outcome),
                                    !.state = IF aborted THEN "stopped" ELSE @]
    /\ UNCHANGED <<storeVars, configVars, clock, latchVars, last_metrics, floor_out,
                   ceiling_out, stale>>
    /\ UNCHANGED <<fileVars, opVars, config, locator>>

\* check_and_alert returns (or its exception reaches the scheduler, which logs
\* it); its locals are gone.
Return ==
    /\ pc = "done"
    /\ pc' = "idle"
    /\ proofrate' = NoMetrics
    /\ now' = 0
    /\ it_pos' = 0 /\ it_used' = 0 /\ it_len' = 0
    /\ user_id' = 0
    /\ floor' = 0 /\ ceiling' = 0
    /\ state' = NoState
    /\ state_linked' = FALSE
    /\ group_recipients' = {}
    /\ pending' = {}
    /\ msg' = "none"
    /\ aborted' = FALSE
    /\ n_sent' = 0
    /\ last_sent' = NoSend
    /\ scheduler' = [scheduler EXCEPT !.instances = @ - 1, !.last_run = Ran(Outcome)]
    /\ UNCHANGED <<storeVars, configVars, clock, latchVars, last_metrics, floor_out,
                   ceiling_out, stale>>
    /\ UNCHANGED <<fileVars, opVars, config, locator>>


\* ------------------------------------------- the RPC client (scraper.py)
Methods == {"getBlocksByHeight", "getTip", "getBlocksByTimestampRange",
            "getTransactionsByBlockHeight"}

\* What can come back for the POST of line 107: the transport fails, the 30 s
\* timeout expires, or an HTTP response arrives with a status and a body.  A
\* body is text that is not JSON, or a JSON value; has_error is whether
\* `"error" in data` holds for it, result is the member "result" of an object.
Statuses == {200, 204, 301, 404, 500}
Bodies ==
    [shape : {"not_json", "null", "number"}, has_error : {FALSE}, result : {"absent"}]
    \cup [shape : {"string", "list"}, has_error : BOOLEAN, result : {"absent"}]
    \cup [shape : {"object"}, has_error : BOOLEAN, result : {"absent", "null", "value"}]
NoBody == [shape |-> "none", has_error |-> FALSE, result |-> "absent"]
Responses ==
    [kind : {"transport_error", "timeout"}, status : {0}, body : {NoBody}]
    \cup [kind : {"http"}, status : Statuses, body : Bodies]
NoResponse == [kind |-> "none", status |-> 0, body |-> NoBody]

\* The exception, if any, that the body of the try block raises for a response
\* (scraper.py 101-115), in the order the statements run.
TryRaises(resp) ==
    IF resp.kind = "transport_error" THEN "ConnectError"
    ELSE IF resp.kind = "timeout" THEN "ReadTimeout"
    ELSE IF ~(resp.status \in 200..299) THEN "HTTPStatusError"
    ELSE IF resp.body.shape = "not_json" THEN "JSONDecodeError"
    ELSE IF resp.body.shape \in {"null", "number"} THEN "TypeError"
    ELSE IF resp.body.has_error /\ resp.body.shape \in {"string", "list"} THEN "TypeError"
    ELSE IF ~resp.body.has_error /\ resp.body.shape # "object" THEN "AttributeError"
    ELSE "none"

\* What the try block returns when it raises nothing (lines 111-115).
TryReturns(resp) ==
    IF resp.body.has_error THEN "None"
    ELSE IF resp.body.result = "value" THEN "value"
    ELSE "None"

\* The except clauses of lines 116-121: HTTPStatusError, then Exception.
\* Every exception the try block can raise derives from Exception.
ExceptionClasses == {"ConnectError", "ReadTimeout", "HTTPStatusError",
                     "JSONDecodeError", "TypeError", "AttributeError"}
CaughtStatusOnly(exc) == exc = "HTTPStatusError"
Caught(exc) == exc = "HTTPStatusError" \/ exc \in ExceptionClasses

\* _rpc_call up to its await (lines 99-107): the request id is taken and the
\* POST is sent.
RpcEnter(method) ==
    /\ request_id' = request_id + 1
    /\ rpc_method' = method
    /\ rpc_posts' = 1
    /\ rpc_pc' = "awaiting"
    /\ rpc_response' = NoResponse
    /\ rpc_result' = "none"
    /\ rpc_raised' = "none"

\* What _rpc_call returns for a response ("none": an exception leaves it).
RpcResult(resp) ==
    LET exc == TryRaises(resp)
    IN  IF exc # "none" THEN (IF Caught(exc) THEN "None" ELSE "none")
        ELSE TryReturns(resp)

\* _rpc_call from its await to its end (lines 107-121).
RpcReturn(resp) ==
    /\ rpc_pc' = "returned"
    /\ rpc_response' = resp
    /\ LET exc == TryRaises(resp) IN
       rpc_raised' = IF exc # "none" /\ ~Caught(exc) THEN exc ELSE "none"
    /\ rpc_result' = RpcResult(resp)
    /\ UNCHANGED <<request_id, rpc_method, rpc_posts>>

\* No fetch_metrics or fetch_24h_volume is running on the client.
NoCall == [op |-> "none", at |-> "none"]

\* _rpc_call is entered: the request id is taken and the POST is sent.
RpcCall(method) ==
    /\ scenario = "rpc"
    /\ rpc_pc \in {"ready", "returned"}
    /\ request_id < MaxCalls
    /\ RpcEnter(method)
    /\ UNCHANGED <<storeVars, latchVars, last_metrics, alert_chat_ids, scenario, clock,
                   pc, localVars, histVars, stale, fetch>>
    /\ UNCHANGED <<fileVars, opVars, envVars>>

\* The POST completes and _rpc_call runs to its end.
RpcResponse(resp) ==
    /\ scenario = "rpc"
    /\ rpc_pc = "awaiting"
    /\ RpcReturn(resp)
    /\ UNCHANGED <<storeVars, latchVars, last_metrics, alert_chat_ids, scenario, clock,
                   pc, localVars, histVars, stale, fetch>>
    /\ UNCHANGED <<fileVars, opVars, envVars>>

InitClient ==
    /\ request_id = 0
    /\ rpc_pc = "ready"
    /\ rpc_method = "none"
    /\ rpc_posts = 0
    /\ rpc_response = NoResponse
    /\ rpc_result = "none"
    /\ rpc_raised = "none"
    /\ fetch = NoCall

\* ------------------------------------------------------------ the system
\* a legacy id migrated as a subscription of one day
TrialUser == [type |-> TYPE_USER, expiry |-> StartTime + SecondsPerDay,
              floor |-> NoneVal, ceiling |-> NoneVal]

\* The record a legacy chat id becomes (bot.py 80-86).
LifetimeUser == [type |-> TYPE_USER, expiry |-> LIFETIME_EXPIRY,
                 floor |-> NoneVal, ceiling |-> NoneVal]

\* The ids a list names.
Listed(l) == {l[i] : i \in 1..Len(l)}
\* The lists that name each id of S once.
RECURSIVE ListsOf(_)
ListsOf(S) ==
    IF S = {} THEN {<<>>}
    ELSE UNION {{<<x>> \o l : l \in ListsOf(S \ {x})} : x \in S}

LifetimeGroup == [type |-> TYPE_GROUP, expiry |-> LIFETIME_EXPIRY,
                  floor |-> NoneVal, ceiling |-> NoneVal]

\* Lines 116-130: a member of "subscribers" as the record kept in memory.
Normalise(v) ==
    IF v.shape = "int"
    THEN [type |-> TYPE_USER, expiry |-> v.expiry, floor |-> NoneVal,
          ceiling |-> NoneVal]
    ELSE [type |-> IF v.type = NoType THEN TYPE_USER ELSE v.type,
          expiry |-> v.expiry, floor |-> v.floor, ceiling |-> v.ceiling]

\* load_paid_subscribers were the legacy ids laid over the members of
\* paid_subscribers.json
LoadLegacyWins(chat_ids, group_ids, doc) ==
    LET keys == IF doc.state = "json" THEN DOMAIN doc.subscribers ELSE {}
        from_doc == {IntOf(k) : k \in keys}
        member(i) == doc.subscribers[CHOOSE k \in keys : IntOf(k) = i]
        rec(i) == IF i \in Listed(group_ids) THEN LifetimeGroup
                  ELSE IF i \in Listed(chat_ids) THEN LifetimeUser
                  ELSE IF i \in from_doc THEN Normalise(member(i))
                  ELSE NoSub
        built == DictBuild(<<>>, PyDict_MINSIZE,
                           [i \in 1..Len(doc.order) |-> IntOf(doc.order[i])]
                             \o chat_ids \o group_ids)
    IN  [subs |-> [i \in Ids |-> rec(i)],
         entries |-> built.entries,
         size |-> built.size,
         migrated |-> chat_ids # <<>> \/ group_ids # <<>>]

\* load_paid_subscribers (bot.py 57-134): the legacy ids as lifetime users and
\* groups, then the members of paid_subscribers.json over them.  A document
\* that is not JSON is logged and contributes nothing.
load_paid_subscribers(chat_ids, group_ids, doc) ==
    LET keys == IF doc.state = "json" THEN DOMAIN doc.subscribers ELSE {}
        from_doc == {IntOf(k) : k \in keys}
        member(i) == doc.subscribers[CHOOSE k \in keys : IntOf(k) = i]
        rec(i) == IF i \in from_doc THEN Normalise(member(i))
                  ELSE IF i \in Listed(group_ids) THEN LifetimeGroup
                  ELSE IF i \in Listed(chat_ids) THEN LifetimeUser
                  ELSE NoSub
        \* result = {} and then result[id] = ... in the order of the three files
        built == DictBuild(<<>>, PyDict_MINSIZE,
                           chat_ids \o group_ids
                             \o [i \in 1..Len(doc.order) |-> IntOf(doc.order[i])])
    IN  [subs |-> [i \in Ids |-> rec(i)],
         entries |-> built.entries,
         size |-> built.size,
         migrated |-> chat_ids # <<>> \/ group_ids # <<>>]

\* The state of a process that has just started, but for the store.
InitLatches == user_alert_state = [i \in Ids |-> NoState]

\* No cycle is running, none has latched the pooled audience, and no
\* operation is on record.
InitIdle ==
    /\ floor_alert_triggered = FALSE
    /\ ceiling_alert_triggered = FALSE
    /\ InitClient
    /\ clock = StartTime
    /\ pc = "idle"
    /\ InitLocals
    /\ InitCycleHist
    /\ ceiling_out = [i \in Ids |-> FALSE]
    /\ stale = [i \in Ids |-> FALSE]
    /\ last_op = NoOp
    /\ n_ops = 0

InitBot ==
    /\ InitIdle
    /\ last_metrics = NoMetrics
    /\ floor_out = [i \in Ids |-> FALSE]

\* The bot running with the default configuration, its scheduler started.
InitProcess ==
    /\ InitBot
    /\ config = DefaultConfig
    /\ scheduler = Started
    /\ locator = NoSearch

\* The process has started once, from a paid_subscribers.json that holds some
\* of the individuals as lifetime subscribers and with no legacy file around
\* (bot.py 231-236).
StartFrom(doc) ==
    LET r == load_paid_subscribers(<<>>, <<>>, doc)
    IN  /\ entries = r.entries
        /\ dk_size = r.size
        /\ subs = r.subs
        /\ legacy_chat_ids = <<>>
        /\ legacy_group_ids = <<>>
        /\ disk = doc
        /\ boots = 1

\* The orders in which the document lists the individuals it holds.
StoreOrders == {<<>>, <<1>>, <<2>>, <<1, 2>>}
InitStore ==
    \E loaded \in StoreOrders :
      StartFrom(Dump(loaded, [i \in Ids |-> LifetimeUser]))

Init ==
    /\ InitStore
    /\ io = "ok"
    /\ \/ scenario = "commands" /\ alert_chat_ids = {}
       \/ scenario = "groups" /\ alert_chat_ids \in SUBSET BroadcastIds
    /\ InitLatches
    /\ InitProcess

\* The entry array has room for the key k by the bound of the run.
HasRoom(k) == k \in DictKeys(entries) \/ Len(entries) < MaxSlots

\* What users do: commands, payments, and time passing between them.
Commands ==
    \/ \E u \in Customisers, f \in ThresholdArgs, c \in ThresholdArgs :
         scenario = "commands" /\ SetAlerts(u, f, c)
    \/ \E u \in UserIds : scenario = "commands" /\ ResetAlerts(u)
    \/ \E u \in UserIds : scenario = "commands" /\ Unsubscribe(u)
    \/ \E u \in Payers, days \in DaysChoices :
         scenario = "commands" /\ HasRoom(u) /\ SuccessfulPayment(u, days)
    \/ scenario = "commands" /\ AdvanceClock
    \/ \E res \in HashrateSamples \cup {NoMetrics} : hashrate(res)

\* The bot is added to and removed from groups.
GroupEvents ==
    \/ \E g \in GroupIds : scenario = "groups" /\ HasRoom(g) /\ GroupJoin(g)
    \/ \E g \in GroupIds : scenario = "groups" /\ GroupLeave(g)

\* One step of check_and_alert.
Cycle ==
    \/ Tick
    \/ \E res \in ProofrateSamples \cup {NoMetrics} : FetchDone(res)
    \/ LoopNext
    \/ EvalFloor
    \/ \E ok \in BOOLEAN : SendFloorDone(ok)
    \/ EvalCeiling
    \/ \E ok \in BOOLEAN : SendCeilingDone(ok)
    \/ GroupFloor
    \/ \E chat_id \in Ids, ok \in BOOLEAN : GroupSendFloorDone(chat_id, ok)
    \/ GroupCeiling
    \/ \E chat_id \in Ids, ok \in BOOLEAN : GroupSendCeilingDone(chat_id, ok)
    \/ Return

Next == Commands \/ GroupEvents \/ Cycle

Spec == Init /\ [][Next]_vars

\* The RPC client on its own: a client instance making calls.
InitRpc ==
    /\ entries = <<>>
    /\ dk_size = PyDict_MINSIZE
    /\ subs = [i \in Ids |-> NoSub]
    /\ legacy_chat_ids = <<>> /\ legacy_group_ids = <<>>
    /\ disk = EmptyDoc
    /\ boots = 1
    /\ io = "ok"
    /\ scenario = "rpc" /\ alert_chat_ids = {}
    /\ InitLatches
    /\ InitProcess

NextRpc ==
    \/ \E method \in Methods : RpcCall(method)
    \/ \E resp \in Responses : RpcResponse(resp)

SpecRpc == InitRpc /\ [][NextRpc]_vars

\* ------------------------------------------- the process from its start
\* main() (bot.py 1157-1243): without a credential it prints an error and
\* returns; otherwise it adds the job and on_startup starts the scheduler.
Main ==
    /\ scheduler.state = "unstarted"
    /\ scheduler' = [scheduler EXCEPT !.state =
                        IF config.TELEGRAM_BOT_TOKEN /\ config.NOCKBLOCKS_API_KEY
                        THEN "started" ELSE "exited"]
    /\ UNCHANGED <<botVars, fileVars, opVars, config, locator>>

\* on_shutdown (bot.py 1229-1232, app.post_shutdown): the application has
\* stopped taking updates and shuts the scheduler down on its way out.  No
\* trigger fires from here on, and a cycle suspended in an await is not
\* resumed: the event loop is closed.
Shutdown ==
    /\ HandlerMayRun
    /\ scheduler.state = "started"
    /\ scheduler' = [scheduler EXCEPT !.state = "stopped"]
    /\ UNCHANGED <<botVars, fileVars, opVars, config, locator>>

\* The event loop of the application is running.
Running == scheduler.state = "started"

\* What config.py may read from the environment: thresholds in tenths of
\* MP/s, the interval in minutes (IntervalTrigger runs an interval of 0 every
\* second).
Environments ==
    [TELEGRAM_BOT_TOKEN : BOOLEAN, NOCKBLOCKS_API_KEY : BOOLEAN,
     PROOFRATE_ALERT_FLOOR : {10, 20, 30}, PROOFRATE_ALERT_CEILING : {20},
     MONITOR_INTERVAL_MINUTES : {0, 60}]

InitConfig ==
    /\ InitStore
    /\ io = "ok"
    /\ scenario = "config" /\ alert_chat_ids = BroadcastIds
    /\ InitLatches
    /\ InitBot
    /\ config \in Environments
    /\ scheduler = NotStarted
    /\ locator = NoSearch

NextConfig ==
    \/ Main
    \/ Running /\ Cycle
    \/ Shutdown

SpecConfig == InitConfig /\ [][NextConfig]_vars

\* ------------------------------------------- the scheduler and its job
\* The interval job with subscribers leaving and paying while cycles run,
\* until the application is shut down.  The clock stands still, so the run
\* has finitely many states.
InitSched ==
    /\ InitStore
    /\ io = "ok"
    /\ scenario = "sched" /\ alert_chat_ids = BroadcastIds
    /\ InitLatches
    /\ InitBot
    /\ config = DefaultConfig
    /\ scheduler = Started
    /\ locator = NoSearch

CycleStep ==
    \/ \E res \in ProofrateSamples \cup {NoMetrics} : FetchDone(res)
    \/ LoopNext
    \/ EvalFloor
    \/ \E ok \in BOOLEAN : SendFloorDone(ok)
    \/ EvalCeiling
    \/ \E ok \in BOOLEAN : SendCeilingDone(ok)
    \/ GroupFloor
    \/ \E chat_id \in Ids, ok \in BOOLEAN : GroupSendFloorDone(chat_id, ok)
    \/ GroupCeiling
    \/ \E chat_id \in Ids, ok \in BOOLEAN : GroupSendCeilingDone(chat_id, ok)
    \/ Return

\* A step of the cycle the event loop resumes.
ResumedStep == Running /\ CycleStep

NextSched ==
    \/ Tick
    \/ SkippedTick
    \/ ResumedStep
    \/ \E u \in UserIds : Running /\ Unsubscribe(u)
    \/ \E u \in Payers, days \in DaysChoices :
         Running /\ HasRoom(u) /\ SuccessfulPayment(u, days)
    \/ Shutdown

\* While the scheduler runs the interval trigger keeps firing, and every await
\* of a running cycle ends: the RPC client and the Telegram client both time
\* out.
SpecSched ==
    InitSched /\ [][NextSched]_vars /\ WF_vars(Tick) /\ WF_vars(ResumedStep)

\* The cycle under each order of the configured floor and ceiling (config.py
\* 21-22 takes them as they come: below, equal, above), with a subscriber
\* setting and resetting thresholds, leaving and paying between its awaits.
Bands == {[DefaultConfig EXCEPT !.PROOFRATE_ALERT_FLOOR = f] : f \in {10, 20, 30}}
InitBands ==
    /\ InitStore
    /\ io = "ok"
    /\ scenario = "bands" /\ alert_chat_ids = BroadcastIds
    /\ InitLatches
    /\ InitBot
    /\ config \in Bands
    /\ scheduler = Started
    /\ locator = NoSearch

NextBands ==
    \/ Tick
    \/ CycleStep
    \/ \E u \in Customisers, f \in ThresholdArgs, c \in ThresholdArgs : SetAlerts(u, f, c)
    \/ \E u \in Customisers : ResetAlerts(u)
    \/ \E u \in Customisers : Unsubscribe(u)
    \/ \E u \in Payers, days \in DaysChoices : HasRoom(u) /\ SuccessfulPayment(u, days)

SpecBands == InitBands /\ [][NextBands]_vars

\* The cycle with subscribers leaving and paying as often as they like: the
\* entry array of paid_subscribers fills up and the table is rebuilt, also
\* while the loop of a cycle is suspended in a delivery.
InitChurn ==
    /\ InitStore
    /\ io = "ok"
    /\ scenario = "churn" /\ alert_chat_ids = BroadcastIds
    /\ InitLatches
    /\ InitProcess

NextChurn ==
    \/ Tick
    \/ CycleStep
    \/ \E u \in UserIds : Unsubscribe(u)
    \/ \E u \in Payers, days \in DaysChoices : SuccessfulPayment(u, days)

SpecChurn == InitChurn /\ [][NextChurn]_vars

\* ------------------------------------------------- scraper.py, NockBlocksAPI
\* A JSON object is a record whose domain holds the keys present; what
\* _rpc_call returns is NoReply (None) or Reply(value).
BLOCKS_PER_EPOCH == 2016
TARGET_BLOCK_TIME == 600
NoReply == [none |-> TRUE]
Reply(v) == [none |-> FALSE, value |-> v]
Get(d, k, default) == IF k \in DOMAIN d THEN d[k] ELSE default
\* `not x` for the result of a call that returns a dict or a list
Falsy(r) == r.none \/ DOMAIN r.value = {}

\* A ratio of two integers (a Python float that is their quotient).
Ratio(n, d) == [num |-> n, den |-> d]
\* The float 0.0 as a proofrate: a proofrate is num / den / per.
Zero == [num |-> 0, den |-> 1, per |-> 1]
\* A field of the snapshot that holds the text "N/A".
NA == [text |-> "N/A"]

\* lines 276-279 written without the boundary rule
EpochBlockMod(epoch_counter) == epoch_counter % BLOCKS_PER_EPOCH

\* lines 276-279
epoch_block(epoch_counter) ==
    IF epoch_counter % BLOCKS_PER_EPOCH = 0 /\ epoch_counter > 0
    THEN BLOCKS_PER_EPOCH
    ELSE epoch_counter % BLOCKS_PER_EPOCH

\* lines 261-265 were the work difference not tested
ProofrateByTimeOnly(time_diff, work_diff) ==
    IF time_diff > 0 THEN [num |-> work_diff, den |-> time_diff, per |-> 1000000]
    ELSE Zero

\* lines 261-265: work_diff / time_diff / 1_000_000, or 0.0
proofrate_mps(time_diff, work_diff) ==
    IF time_diff > 0 /\ work_diff > 0
    THEN [num |-> work_diff, den |-> time_diff, per |-> 1000000]
    ELSE Zero

\* lines 268-273: the unit the value is printed in (with two decimals)
proofrate_str(mps) ==
    IF mps.num \div 1000000000 >= mps.den THEN [unit |-> "GP/s"]
    ELSE IF mps.num \div 10000 >= mps.den THEN [unit |-> "MP/s"]
    ELSE [unit |-> "KP/s"]

\* ---- avg_block_time_seconds and est_seconds are Python floats (IEEE 754
\* binary64): line 238 rounds time_diff / num_intervals to the nearest double
\* and line 288 rounds the product of that double with blocks_to_adj.
\* floor(log2(p / q)), for positive p and q
RECURSIVE Log2Floor(_, _)
Log2Floor(p, q) ==
    IF p < q THEN Log2Floor(2 * p, q) - 1
    ELSE IF p >= 2 * q THEN Log2Floor(p, 2 * q) + 1
    ELSE 0

RECURSIVE TwoTo(_)
TwoTo(k) == IF k <= 0 THEN 1 ELSE 2 * TwoTo(k - 1)

\* 2^k mod n
RECURSIVE TwoToMod(_, _)
TwoToMod(k, n) == IF k <= 0 THEN 1 % n ELSE (2 * TwoToMod(k - 1, n)) % n

\* Whether p / q is a power of two.
IsPowerOfTwo(p, q) ==
    LET f == Log2Floor(p, q)
    IN  IF f >= 0 THEN p = q * TwoTo(f) ELSE p * TwoTo(-f) = q

\* line 238: how far t / n lies above the double it is rounded to, as a
\* number of n-ths of that double's unit in the last place (negative: the
\* double lies above the quotient).  The quotient scaled to 53 bits is
\* t * 2^(52 - f) / n; its remainder decides the rounding, and the parity of
\* its whole part decides a tie.
QuotientError(t, n) ==
    LET f == Log2Floor(t, n)
        rem2 == ((t % (2 * n)) * TwoToMod(52 - f, 2 * n)) % (2 * n)
        rem == rem2 % n
    IN  IF 2 * rem < n \/ (2 * rem = n /\ rem2 < n) THEN rem ELSE rem - n

\* lines 238 and 288: the whole part of the float est_seconds.  The exact
\* product is b * t / n.  A fractional one lies at least 1/n from the next
\* whole number, further than the rounding can carry it.  A whole one is a
\* double itself, and the computed product is the double below it when the
\* error of the quotient, times b, is more than half the gap to that double.
est_seconds(b, t, n) ==
    LET exact == (b * t) \div n
        f == Log2Floor(t, n)
        e == Log2Floor(b * t, n)
        gaps == IF IsPowerOfTwo(b * t, n) THEN 2 ELSE 1
        below == /\ b * t > 0
                 /\ (b * t) % n = 0
                 /\ QuotientError(t, n) > 0
                 /\ gaps * b * QuotientError(t, n) * TwoTo(f + 1 - e)
                      > n * TwoTo(e - f - 1)
    IN  IF below THEN exact - 1 ELSE exact

_calculate_metrics(first_block, latest_block, latest_height, num_intervals) ==
    LET first_ts == Get(first_block, "timestamp", 0)
        latest_ts == Get(latest_block, "timestamp", 0)
        first_work == Get(first_block, "accumulatedWork", 0)
        latest_work == Get(latest_block, "accumulatedWork", 0)
        time_diff == latest_ts - first_ts
        work_diff == latest_work - first_work
        \* avg_block_time_seconds > 0
        has_avg == time_diff > 0 /\ num_intervals > 0
        epoch_counter == Get(latest_block, "epochCounter", 0)
        blocks_to_adj == BLOCKS_PER_EPOCH - epoch_block(epoch_counter)
        \* int(est_seconds)
        est_whole == est_seconds(blocks_to_adj, time_diff, num_intervals)
    IN  [none |-> FALSE,
         \* "2^x", x the base-2 logarithm of this ratio with one decimal
         difficulty |-> IF num_intervals > 0 /\ work_diff > 0
                        THEN [log2 |-> Ratio(work_diff, num_intervals)]
                        ELSE NA,
         proofrate |-> proofrate_str(proofrate_mps(time_diff, work_diff)),
         proofrate_value |-> proofrate_mps(time_diff, work_diff),
         epoch_progress |-> [epoch_block |-> epoch_block(epoch_counter),
                             of |-> BLOCKS_PER_EPOCH],
         epoch_percentage |-> Ratio(epoch_block(epoch_counter) * 100, BLOCKS_PER_EPOCH),
         blocks_to_adj |-> Str(blocks_to_adj),
         est_time_to_adj |-> IF has_avg
                             THEN [days |-> est_whole \div 86400,
                                   hours |-> (est_whole % 86400) \div 3600]
                             ELSE NA,
         avg_block_time |-> IF has_avg
                            THEN [minutes |-> (time_diff \div num_intervals) \div 60,
                                  seconds |-> (time_diff \div num_intervals) % 60]
                            ELSE NA,
         \* the ratio printed with three decimals and an "x"
         next_adj_ratio |-> IF has_avg
                            THEN [x |-> Ratio(TARGET_BLOCK_TIME * num_intervals, time_diff)]
                            ELSE NA,
         latest_block |-> Str(latest_height)]

\* line 196 without the floor at height 1
FirstHeightUnfloored(latest_height) == latest_height - 100

\* line 196
first_height(latest_height) ==
    IF latest_height - 100 > 1 THEN latest_height - 100 ELSE 1

\* fetch_metrics with the replies its two calls get: the heights it asked
\* get_blocks_by_height for, num_intervals, and what it returns.
NoFetch(asked) == [asked |-> asked, num_intervals |-> 0, metrics |-> NoReply]
fetch_metrics(latest_block, blocks_data) ==
    LET latest_height == Get(latest_block.value, "height", 0)
        num_intervals == latest_height - first_height(latest_height)
    IN  IF Falsy(latest_block) THEN NoFetch(<<>>)
        ELSE IF latest_height = 0 THEN NoFetch(<<>>)
        ELSE IF Falsy(blocks_data) \/ Falsy(blocks_data.value[1])
             THEN NoFetch(<<first_height(latest_height)>>)
        ELSE [asked |-> <<first_height(latest_height)>>,
              num_intervals |-> num_intervals,
              metrics |-> _calculate_metrics(blocks_data.value[1].value,
                                             latest_block.value, latest_height,
                                             num_intervals)]

\* lines 168-170 were coinbase seeds counted like the others
SeedGiftAll(seed) == Get(seed, "gift", 0)

\* lines 168-170: what one seed adds to total_volume
SeedGift(seed) ==
    IF Get(seed, "isCoinbase", FALSE) THEN 0 ELSE Get(seed, "gift", 0)

RECURSIVE SeedsGift(_)
SeedsGift(seeds) ==
    IF seeds = <<>> THEN 0 ELSE SeedGift(Head(seeds)) + SeedsGift(Tail(seeds))

RECURSIVE OutputsGift(_)
OutputsGift(outputs) ==
    IF outputs = <<>> THEN 0
    ELSE SeedsGift(Get(Head(outputs), "seeds", <<>>)) + OutputsGift(Tail(outputs))

\* lines 163-170 for the transactions of one block: what they add to
\* total_volume and to tx_count
RECURSIVE TxsGift(_)
TxsGift(txs) ==
    IF txs = <<>> THEN 0
    ELSE OutputsGift(Get(Head(txs), "outputs", <<>>)) + TxsGift(Tail(txs))

\* lines 160-170 were a failed transaction fetch to discard the sums so far
VolumeStepAllOrNothing(acc, txs) ==
    IF Falsy(txs) THEN [total_volume |-> 0, tx_count |-> 0]
    ELSE [total_volume |-> acc.total_volume + TxsGift(txs.value),
          tx_count |-> acc.tx_count + Len(txs.value)]

\* lines 160-170, one pass of the for-loop once the transactions of its
\* height are back: what becomes of total_volume and tx_count
volume_step(acc, txs) ==
    IF Falsy(txs) THEN acc
    ELSE [total_volume |-> acc.total_volume + TxsGift(txs.value),
          tx_count |-> acc.tx_count + Len(txs.value)]

\* line 152
RECURSIVE heights_with_txs(_)
heights_with_txs(blocks) ==
    IF blocks = <<>> THEN <<>>
    ELSE (IF Get(Head(blocks), "txids", <<>>) # <<>>
          THEN <<Head(blocks).height>> ELSE <<>>) \o heights_with_txs(Tail(blocks))

\* lines 172-179
VolumeResult(blocks, sums) ==
    [none |-> FALSE,
     volume_nock |-> Ratio(sums.total_volume, 65536),
     tx_count |-> sums.tx_count,
     block_count |-> Len(blocks.value)]

\* ---- what the API may answer
AbsentKey == [k \in {} |-> 0]
TipHeights == {0, 1, 50, 101, 102}
WithKey(S, k, V) ==
    S \cup {[j \in DOMAIN d \cup {k} |-> IF j = k THEN v ELSE d[j]] : d \in S, v \in V}
TipBlocks ==
    WithKey(WithKey(WithKey({AbsentKey}, "height", TipHeights),
                    "timestamp", {1000, 61000}),
            "accumulatedWork", {500, 2000000000})
    \cup {[height |-> 250, timestamp |-> 61000, accumulatedWork |-> 2000000000,
           epochCounter |-> e] : e \in {0, 1, 2015, 2016, 2017, 4032}}
    \* 100 intervals of 604.8 s: 375 of them are 226799.99999999997 s as floats
    \cup {[height |-> 250, timestamp |-> 61480, accumulatedWork |-> 2000000000,
           epochCounter |-> 1641]}
AnchorBlocks ==
    WithKey(WithKey({AbsentKey}, "timestamp", {1000, 2000}),
            "accumulatedWork", {500})
TipReplies == {NoReply} \cup {Reply(b) : b \in TipBlocks}
AnchorReplies ==
    {NoReply, Reply(<<>>), Reply(<<NoReply>>)} \cup
    {Reply(<<Reply(b)>>) : b \in AnchorBlocks}

\* Calls made in one run, and blocks in the 24-hour window.
MaxFetches == 1
MaxBlocks == 2
TxSpend ==
    [outputs |-> <<[seeds |-> <<[isCoinbase |-> FALSE, gift |-> 65536], [gift |-> 7]>>],
                   [seeds |-> <<[isCoinbase |-> TRUE, gift |-> 1000]>>]>>]
TxCoinbase == [outputs |-> <<[seeds |-> <<[isCoinbase |-> TRUE, gift |-> 1000]>>]>>]
TxBare == [id |-> "tx"]
TxReplies ==
    {NoReply, Reply(<<>>), Reply(<<TxSpend>>), Reply(<<TxCoinbase, TxBare>>),
     Reply(<<TxSpend, [outputs |-> <<[seeds |-> <<[isCoinbase |-> FALSE]>>]>>]>>)}
WindowBlocks(h) ==
    {[height |-> h], [height |-> h, txids |-> <<>>], [height |-> h, txids |-> <<"tx">>]}
Windows ==
    UNION {{w \in [1..n -> UNION {WindowBlocks(h) : h \in 1..n}] :
              \A i \in 1..n : w[i].height = i} : n \in 0..MaxBlocks}
BlockReplies == {NoReply} \cup {Reply(w) : w \in Windows}

\* ---- fetch_metrics and fetch_24h_volume as they run on the client: each
\* await of _rpc_call ends a step, and the event loop may run other callbacks
\* before the reply is in.
\* What comes back for a POST: no answer in time, a refusal, an error object,
\* a null result, or a result.
FetchResponses ==
    {[kind |-> "timeout", status |-> 0, body |-> NoBody],
     [kind |-> "http", status |-> 404,
      body |-> [shape |-> "not_json", has_error |-> FALSE, result |-> "absent"]],
     [kind |-> "http", status |-> 200,
      body |-> [shape |-> "object", has_error |-> TRUE, result |-> "absent"]],
     [kind |-> "http", status |-> 200,
      body |-> [shape |-> "object", has_error |-> FALSE, result |-> "null"]],
     [kind |-> "http", status |-> 200,
      body |-> [shape |-> "object", has_error |-> FALSE, result |-> "value"]]}
\* The call's return value for a response: the result it carries, or None.
Carries(resp, reply) == reply.none <=> RpcResult(resp) # "value"

ScraperIdle ==
    UNCHANGED <<storeVars, latchVars, last_metrics, alert_chat_ids, scenario, clock, pc,
                localVars, histVars, stale, fileVars, envVars>>

\* fetch_metrics is called and awaits get_tip (line 185).
FetchMetricsCall ==
    /\ scenario = "scraper"
    /\ n_ops < MaxFetches
    /\ fetch = NoCall
    /\ RpcEnter("getTip")
    /\ fetch' = [op |-> "fetch_metrics", at |-> "get_tip"]
    /\ UNCHANGED opVars
    /\ ScraperIdle

\* get_tip returns (lines 185-197): without a tip, or with a tip at height 0,
\* fetch_metrics returns None; otherwise it awaits get_blocks_by_height.
FetchMetricsTip(resp, latest_block) ==
    /\ scenario = "scraper"
    /\ fetch.op = "fetch_metrics" /\ fetch.at = "get_tip"
    /\ Carries(resp, latest_block)
    /\ IF fetch_metrics(latest_block, NoReply).asked = <<>>
       THEN /\ RpcReturn(resp)
            /\ fetch' = NoCall
            /\ Record("fetch_metrics", 0, <<latest_block, NoReply>>, "returned",
                      fetch_metrics(latest_block, NoReply), FALSE)
       ELSE /\ RpcEnter("getBlocksByHeight")
            /\ fetch' = [op |-> "fetch_metrics", at |-> "get_blocks_by_height",
                         latest_block |-> latest_block]
            /\ UNCHANGED opVars
    /\ ScraperIdle

\* get_blocks_by_height returns (lines 197-215) and fetch_metrics with it.
FetchMetricsBlocks(resp, blocks_data) ==
    /\ scenario = "scraper"
    /\ fetch.op = "fetch_metrics" /\ fetch.at = "get_blocks_by_height"
    /\ Carries(resp, blocks_data)
    /\ RpcReturn(resp)
    /\ fetch' = NoCall
    /\ Record("fetch_metrics", 0, <<fetch.latest_block, blocks_data>>, "returned",
              fetch_metrics(fetch.latest_block, blocks_data), FALSE)
    /\ ScraperIdle

\* The replies to get_transactions_by_block_height by height, none in yet.
NoTxs == [h \in 1..MaxBlocks |-> NoReply]

\* fetch_24h_volume is called and awaits get_blocks_by_timestamp_range
\* (lines 141-147).
FetchVolumeCall ==
    /\ scenario = "scraper"
    /\ n_ops < MaxFetches
    /\ fetch = NoCall
    /\ RpcEnter("getBlocksByTimestampRange")
    /\ fetch' = [op |-> "fetch_24h_volume", at |-> "get_blocks_by_timestamp_range"]
    /\ UNCHANGED opVars
    /\ ScraperIdle

\* get_blocks_by_timestamp_range returns (lines 147-159): without blocks
\* fetch_24h_volume returns None; with no block that has transactions it
\* returns its result; otherwise it awaits the transactions of the first
\* such height.
FetchVolumeBlocks(resp, blocks) ==
    /\ scenario = "scraper"
    /\ fetch.op = "fetch_24h_volume" /\ fetch.at = "get_blocks_by_timestamp_range"
    /\ Carries(resp, blocks)
    /\ IF Falsy(blocks)
       THEN /\ RpcReturn(resp)
            /\ fetch' = NoCall
            /\ Record("fetch_24h_volume", 0, <<blocks, NoTxs>>, "returned", NoReply,
                      FALSE)
       ELSE IF heights_with_txs(blocks.value) = <<>>
       THEN /\ RpcReturn(resp)
            /\ fetch' = NoCall
            /\ Record("fetch_24h_volume", 0, <<blocks, NoTxs>>, "returned",
                      VolumeResult(blocks, [total_volume |-> 0, tx_count |-> 0]),
                      FALSE)
       ELSE /\ RpcEnter("getTransactionsByBlockHeight")
            /\ fetch' = [op |-> "fetch_24h_volume",
                         at |-> "get_transactions_by_block_height",
                         blocks |-> blocks,
                         \* the heights the for-loop has yet to finish
                         heights |-> heights_with_txs(blocks.value),
                         total_volume |-> 0, tx_count |-> 0,
                         \* the replies so far (history)
                         txs |-> NoTxs]
            /\ UNCHANGED opVars
    /\ ScraperIdle

\* get_transactions_by_block_height returns for the height the loop is at
\* (lines 159-179): the sums are updated, and the loop awaits the next
\* height's transactions or, after the last, fetch_24h_volume returns.
FetchVolumeTxs(resp, txs) ==
    /\ scenario = "scraper"
    /\ fetch.op = "fetch_24h_volume" /\ fetch.at = "get_transactions_by_block_height"
    /\ Carries(resp, txs)
    /\ LET acc == volume_step([total_volume |-> fetch.total_volume,
                               tx_count |-> fetch.tx_count], txs)
           replies == [fetch.txs EXCEPT ![Head(fetch.heights)] = txs]
       IN  IF Tail(fetch.heights) = <<>>
           THEN /\ RpcReturn(resp)
                /\ fetch' = NoCall
                /\ Record("fetch_24h_volume", 0, <<fetch.blocks, replies>>,
                          "returned", VolumeResult(fetch.blocks, acc), FALSE)
           ELSE /\ RpcEnter("getTransactionsByBlockHeight")
                /\ fetch' = [fetch EXCEPT !.heights = Tail(@), !.txs = replies,
                                          !.total_volume = acc.total_volume,
                                          !.tx_count = acc.tx_count]
                /\ UNCHANGED opVars
    /\ ScraperIdle

InitScraper ==
    /\ StartFrom(EmptyDoc)
    /\ io = "ok"
    /\ scenario = "scraper" /\ alert_chat_ids = {}
    /\ InitLatches
    /\ InitProcess

NextScraper ==
    \/ FetchMetricsCall
    \/ \E resp \in FetchResponses, latest_block \in TipReplies :
         FetchMetricsTip(resp, latest_block)
    \/ \E resp \in FetchResponses, blocks_data \in AnchorReplies :
         FetchMetricsBlocks(resp, blocks_data)
    \/ FetchVolumeCall
    \/ \E resp \in FetchResponses, blocks \in BlockReplies :
         FetchVolumeBlocks(resp, blocks)
    \/ \E resp \in FetchResponses, txs \in TxReplies : FetchVolumeTxs(resp, txs)

SpecScraper == InitScraper /\ [][NextScraper]_vars

\* ------------------------------------------------------- the Tip Locator
\* The height-probe search for an endpoint without a tip query.  locator.tip
\* is the chain's height T: a block exists at h exactly when h <= T.  The
\* result is a height, or NoneVal for "unknown".
MaxTip == 24
BracketLow == 2
BracketHigh == 5
BracketStep == 4
Exists(h) == h <= locator.tip
Searching(what) == locator.phase = what /\ UNCHANGED <<botVars, fileVars, opVars,
                                                       config, scheduler>>

\* the lower probe: no block there ends the search
ProbeLower ==
    /\ Searching("lower")
    /\ locator' = IF Exists(locator.low)
                  THEN [locator EXCEPT !.phase = "upper"]
                  ELSE [locator EXCEPT !.phase = "done", !.result = NoneVal]

\* the upper probe: a block there moves the upper bound up by the step
ProbeUpper ==
    /\ Searching("upper")
    /\ locator' = IF Exists(locator.high)
                  THEN [locator EXCEPT !.high = @ + BracketStep]
                  ELSE [locator EXCEPT !.phase = "bisect"]

\* the midpoint rounded down
BisectRoundsDown ==
    /\ Searching("bisect")
    /\ LET mid == (locator.low + locator.high) \div 2
       IN  locator' = IF locator.low = locator.high
                      THEN [locator EXCEPT !.phase = "done", !.result = locator.low]
                      ELSE IF Exists(mid) THEN [locator EXCEPT !.low = mid]
                      ELSE [locator EXCEPT !.high = mid - 1]

\* one round of the binary search, or its end at low = high
Bisect ==
    /\ Searching("bisect")
    /\ LET mid == (locator.low + locator.high + 1) \div 2
       IN  locator' = IF locator.low = locator.high
                      THEN [locator EXCEPT !.phase = "done", !.result = locator.low]
                      ELSE IF Exists(mid) THEN [locator EXCEPT !.low = mid]
                      ELSE [locator EXCEPT !.high = mid - 1]

InitLocator ==
    /\ StartFrom(EmptyDoc)
    /\ io = "ok"
    /\ scenario = "locator" /\ alert_chat_ids = {}
    /\ InitLatches
    /\ InitBot
    /\ config = DefaultConfig
    /\ scheduler = NotStarted
    /\ locator \in {[phase |-> "lower", tip |-> T, low |-> BracketLow,
                     high |-> BracketHigh, result |-> NoneVal] : T \in 0..MaxTip}

NextLocator == ProbeLower \/ ProbeUpper \/ Bisect

\* The search is one sequential computation: it takes its next step.
SpecLocator == InitLocator /\ [][NextLocator]_vars /\ WF_vars(NextLocator)

\* ------------------------------------------- the store, one operation at a time
\* The file system starts or stops failing.
DiskChanges(v) ==
    /\ io # v
    /\ io' = v
    /\ UNCHANGED <<botVars, disk, legacyVars, opVars, envVars>>

IoOutcomes == {"ok", "open_fails", "write_fails"}
\* What a user may type after /setalerts.
Tokens == {NotANumber, Numeral(-5), Numeral(5), Numeral(10), Numeral(NaN)}
ArgLists == {<<>>, <<Numeral(5)>>, <<Numeral(5), Numeral(10), Numeral(20)>>}
              \cup {<<a, b>> : a \in Tokens, b \in Tokens}

\* The commands and chat events, with the disk failing at times.  The
\* process has just started, or it has run for a while: a subscriber has set
\* thresholds of 0.5 and 1.0 and one cycle since then, with a proofrate of
\* 0.0, has sent every individual the floor alert and returned.
CustomUser == [LifetimeUser EXCEPT !.floor = 5, !.ceiling = 10]
InitStoreOps ==
    /\ \E loaded \in StoreOrders, custom \in BOOLEAN :
         LET cycled == custom /\ Customisers \cap Listed(loaded) # {}
             alerted == IF cycled THEN Listed(loaded) ELSE {}
         IN  /\ StartFrom(Dump(loaded,
                               [i \in Ids |-> IF cycled /\ i \in Customisers
                                              THEN CustomUser ELSE LifetimeUser]))
             /\ user_alert_state =
                  [i \in Ids |-> IF i \in alerted
                                 THEN [FreshState EXCEPT !.floor_triggered = TRUE]
                                 ELSE NoState]
             /\ last_metrics = IF cycled THEN 0 ELSE NoMetrics
             /\ floor_out = [i \in Ids |-> i \in alerted]
    /\ io = "ok"
    /\ scenario = "store" /\ alert_chat_ids = {}
    /\ InitIdle
    /\ config = DefaultConfig
    /\ scheduler = Started
    /\ locator = NoSearch

NextStore ==
    \/ \E u \in UserIds, args \in ArgLists :
         scenario = "store" /\ n_ops < MaxOps /\ setalerts(u, args)
    \/ \E u \in UserIds : scenario = "store" /\ n_ops < MaxOps /\ ResetAlerts(u)
    \/ \E u \in UserIds : scenario = "store" /\ n_ops < MaxOps /\ Unsubscribe(u)
    \/ \E u \in Payers, days \in DaysChoices :
         scenario = "store" /\ n_ops < MaxOps /\ SuccessfulPayment(u, days)
    \/ \E g \in GroupIds : scenario = "store" /\ n_ops < MaxOps /\ GroupJoin(g)
    \/ \E g \in GroupIds : scenario = "store" /\ n_ops < MaxOps /\ GroupLeave(g)
    \/ scenario = "store" /\ AdvanceClock
    \/ \E v \in IoOutcomes : scenario = "store" /\ DiskChanges(v)

SpecStore == InitStoreOps /\ [][NextStore]_vars

\* The store's functions called directly.
OptionalBounds == {NoneVal, 5, 10}
ApiSetThresholds(u, f, c) ==
    /\ set_user_thresholds(u, f, c)
    /\ Record("set_thresholds", u, <<f, c>>,
              IF subs[u] = NoSub THEN "absent" ELSE "ok", 0,
              subs[u] # NoSub)
    /\ UNCHANGED <<entries, dk_size, latchVars, last_metrics, configVars, clock, pc,
                   localVars, histVars, stale, io, legacyVars, envVars>>

InitApi ==
    /\ InitStore
    /\ io = "ok"
    /\ scenario = "api" /\ alert_chat_ids = {}
    /\ InitLatches
    /\ InitProcess

NextApi ==
    \/ \E u \in UserIds \cup GroupIds, f \in OptionalBounds, c \in OptionalBounds :
         scenario = "api" /\ n_ops < MaxOps /\ ApiSetThresholds(u, f, c)
    \/ \E u \in UserIds, days \in DaysChoices :
         scenario = "api" /\ n_ops < MaxOps /\ SuccessfulPayment(u, days)
    \/ \E g \in GroupIds : scenario = "api" /\ n_ops < MaxOps /\ GroupJoin(g)
    \/ scenario = "api" /\ AdvanceClock
    \/ \E v \in IoOutcomes : scenario = "api" /\ DiskChanges(v)

SpecApi == InitApi /\ [][NextApi]_vars

\* ------------------------------------------------------- the load at startup
\* The process starts (bot.py 226-236): the store is loaded and, when a legacy
\* file contributed, saved.
Startup ==
    /\ scenario \in {"load", "restart"}
    /\ boots < MaxBoots
    /\ boots' = boots + 1
    /\ LET r == load_paid_subscribers(legacy_chat_ids, legacy_group_ids, disk) IN
         /\ entries' = r.entries
         /\ dk_size' = r.size
         /\ subs' = r.subs
         /\ IF r.migrated
            THEN save_paid_subscribers(r.entries)
            ELSE UNCHANGED disk
         /\ Record("startup", 0, <<disk>>,
                   IF r.migrated THEN "migrated" ELSE "loaded", 0, r.migrated)
    /\ UNCHANGED <<latchVars, last_metrics, configVars, clock, pc, localVars,
                   histVars, stale, io, legacy_chat_ids, legacy_group_ids,
                   envVars>>

\* The files a process may find: legacy id lists (id 2 may be on both), and a
\* paid_subscribers.json whose members are canonical objects, objects without
\* "type", or bare expiries.
LegacyUserIds == {1, 2}
LegacyGroupIds == {2, 3}
DocIds == {1, 2, 3}
DocMembers ==
    {BareExpiry(LIFETIME_EXPIRY), BareExpiry(StartTime + SecondsPerDay),
     JsonOf([type |-> TYPE_USER, expiry |-> LIFETIME_EXPIRY, floor |-> 5,
             ceiling |-> 10]),
     JsonOf([type |-> NoType, expiry |-> StartTime + SecondsPerDay,
             floor |-> Missing, ceiling |-> Missing]),
     JsonOf(LifetimeGroup)}
Documents ==
    {Truncated} \cup
    UNION {{[state |-> "json",
             order |-> [i \in 1..Len(l) |-> Str(l[i])],
             subscribers |-> f] :
              l \in ListsOf(ids), f \in [{Str(i) : i \in ids} -> DocMembers]} :
           ids \in SUBSET DocIds}
\* The legacy lists, in either order.
LegacyUserLists == UNION {ListsOf(S) : S \in SUBSET LegacyUserIds}
LegacyGroupLists == UNION {ListsOf(S) : S \in SUBSET LegacyGroupIds}

InitLoad ==
    /\ entries = <<>>
    /\ dk_size = PyDict_MINSIZE
    /\ subs = [i \in Ids |-> NoSub]
    /\ legacy_chat_ids \in LegacyUserLists
    /\ legacy_group_ids \in LegacyGroupLists
    /\ disk \in Documents
    /\ boots = 0
    /\ io \in IoOutcomes
    /\ scenario = "load" /\ alert_chat_ids = {}
    /\ InitLatches
    /\ InitProcess

NextLoad == Startup

SpecLoad == InitLoad /\ [][NextLoad]_vars

\* ------------------------------------------------- removals and restarts
\* The process starts on whatever files it finds, recipients leave while it
\* runs (bot.py 410-426, 995-1000), and it is started again on the files it
\* left: the legacy lists, which no code writes or removes, and the document
\* of the last save.
InitRestart ==
    /\ entries = <<>>
    /\ dk_size = PyDict_MINSIZE
    /\ subs = [i \in Ids |-> NoSub]
    /\ legacy_chat_ids \in LegacyUserLists
    /\ legacy_group_ids \in LegacyGroupLists
    /\ disk \in Documents
    /\ boots = 0
    /\ io = "ok"
    /\ scenario = "restart" /\ alert_chat_ids = {}
    /\ InitLatches
    /\ InitProcess

NextRestart ==
    \/ scenario = "restart" /\ n_ops < MaxOps /\ Startup
    \/ \E u \in UserIds :
         scenario = "restart" /\ boots > 0 /\ n_ops < MaxOps /\ Unsubscribe(u)
    \/ \E g \in GroupIds :
         scenario = "restart" /\ boots > 0 /\ n_ops < MaxOps /\ GroupJoin(g)
    \/ \E g \in GroupIds :
         scenario = "restart" /\ boots > 0 /\ n_ops < MaxOps /\ GroupLeave(g)

SpecRestart == InitRestart /\ [][NextRestart]_vars


\* ==================================================================== claims
\* The subscription of sub has lapsed at time t, as the cycle tests it.
\* (Written out here so that the claims do not lean on the model's own test.)
ExpiredAt(sub, t) == sub.expiry # 0 /\ sub.expiry <= t

\* A send_alert of the cycle completes in this step.
SendCompletes == n_sent' = n_sent + 1

\* C1: between two recovery notifications of a stream (floor or ceiling), an
\* individual recipient whose thresholds and subscription did not change gets
\* at most one degraded notification of that stream: a floor alert is never
\* sent while an earlier floor alert is still outstanding, and likewise a
\* ceiling alert.
C1_Hysteresis ==
    [][(SendCompletes /\ last_sent'.stream = "user" /\ state_linked)
         => /\ last_sent'.kind = "low" => ~floor_out[last_sent'.to]
            /\ last_sent'.kind = "high" => ~ceiling_out[last_sent'.to]]_vars

\* A later cycle finds the proofrate still below the floor of a recipient whose
\* floor alert is outstanding, and passes on without sending it again.
C1_Witness ==
    /\ pc = "ceiling" /\ n_sent = 0 /\ state_linked
    /\ user_id = 1 /\ floor_out[1] /\ proofrate < floor /\ state.floor_triggered

\* C2: for an active individual recipient, the cycle sets the floor latch and
\* sends one "low" alert when the proofrate is below the recipient's floor and
\* the latch is clear; clears the latch and sends one "recovered" notification
\* when the proofrate is at or above the floor and the latch is set; and
\* otherwise (in particular at proofrate = floor with the latch clear) changes
\* nothing and sends nothing.
C2_FloorStep ==
    pc = "floor" =>
      LET u == user_id
          was == user_alert_state[u].floor_triggered
          below == proofrate < get_user_thresholds(u)[1]
      IN  /\ user_alert_state[u].present
          /\ ~ExpiredAt(subs[u], now)
          /\ IF below /\ ~was
             THEN /\ user_alert_state'[u].floor_triggered
                  /\ pc' = "send_floor" /\ msg' = "low"
             ELSE IF ~below /\ was
             THEN /\ ~user_alert_state'[u].floor_triggered
                  /\ pc' = "send_floor" /\ msg' = "recovered"
             ELSE /\ user_alert_state' = user_alert_state
                  /\ pc' = "ceiling"
          /\ user_alert_state'[u].ceiling_triggered
               = user_alert_state[u].ceiling_triggered
          /\ \A v \in Ids \ {u} : user_alert_state'[v] = user_alert_state[v]
          /\ n_sent' = n_sent

C2_FloorSend ==
    pc = "send_floor" =>
      \/ pc' = "send_floor" /\ n_sent' = n_sent /\ msg' = msg /\ user_id' = user_id
      \/ /\ pc' = "ceiling" /\ SendCompletes
         /\ last_sent'.to = user_id /\ last_sent'.stream = "user"
         /\ last_sent'.kind = msg

C2_FloorLatch == [][C2_FloorStep /\ C2_FloorSend]_vars

\* The proofrate is back at exactly the floor with the latch set: the latch has
\* been cleared and the "recovered" notification is on its way.
C2_Witness ==
    /\ pc = "send_floor" /\ msg = "recovered" /\ proofrate = floor
    /\ state_linked /\ ~user_alert_state[user_id].floor_triggered

\* C3: the ceiling latch mirrors the floor latch: set with one "high" alert
\* when the proofrate is above the ceiling and the latch is clear, cleared
\* with one "normalized" notification when the proofrate is at or below the
\* ceiling and the latch is set, otherwise untouched; and the ceiling is
\* evaluated for the recipient whichever branch the floor evaluation took.
C3_CeilingReached ==
    /\ pc = "floor" => pc' \in {"send_floor", "ceiling"}
    /\ pc = "send_floor" => pc' \in {"send_floor", "ceiling"}
    /\ (pc \in {"floor", "send_floor"} /\ pc' = "ceiling")
         => user_id' = user_id /\ proofrate' = proofrate /\ ceiling' = ceiling

C3_CeilingStep ==
    pc = "ceiling" =>
      LET was == state.ceiling_triggered
          above == proofrate > ceiling
      IN  /\ state_linked =>
                /\ state = user_alert_state[user_id]
                /\ ceiling = get_user_thresholds(user_id)[2]
          /\ IF above /\ ~was
             THEN /\ state'.ceiling_triggered
                  /\ state'.floor_triggered = state.floor_triggered
                  /\ pc' = "send_ceiling" /\ msg' = "high"
             ELSE IF ~above /\ was
             THEN /\ ~state'.ceiling_triggered
                  /\ state'.floor_triggered = state.floor_triggered
                  /\ pc' = "send_ceiling" /\ msg' = "normalized"
             ELSE /\ user_alert_state' = user_alert_state
                  /\ pc' = "loop"
          /\ (state_linked /\ pc' = "send_ceiling")
                => user_alert_state'[user_id] = state'
          /\ \A v \in Ids \ {user_id} : user_alert_state'[v] = user_alert_state[v]
          /\ n_sent' = n_sent

C3_CeilingSend ==
    pc = "send_ceiling" =>
      \/ pc' = "send_ceiling" /\ n_sent' = n_sent /\ msg' = msg /\ user_id' = user_id
      \/ /\ pc' = "loop" /\ SendCompletes
         /\ last_sent'.to = user_id /\ last_sent'.stream = "user"
         /\ last_sent'.kind = msg

C3_CeilingLatch == [][C3_CeilingReached /\ C3_CeilingStep /\ C3_CeilingSend]_vars

\* The proofrate jumped from below the floor to above the ceiling: in one
\* evaluation the recipient got "recovered" and the "high" alert follows.
C3_Witness ==
    /\ pc = "send_ceiling" /\ msg = "high" /\ state.ceiling_triggered
    /\ n_sent >= 1 /\ last_sent.to = user_id /\ last_sent.kind = "recovered"

\* C4: when a recipient's thresholds change (a successful /setalerts or
\* /resetalerts), the recipient's alert state is gone before the cycle next
\* evaluates the recipient, and that evaluation starts from a fresh latch pair
\* and the new thresholds.
C4_ChangeStep ==
    /\ \A u \in Ids :
         (get_user_thresholds(u)[1] # UserFloor(subs'[u])
            \/ get_user_thresholds(u)[2] # UserCeiling(subs'[u]))
         => ~user_alert_state'[u].present
    /\ (pc = "loop" /\ pc' = "floor" /\ stale[user_id'])
         => /\ state' = FreshState
            /\ user_alert_state'[user_id'] = FreshState
            /\ floor' = UserFloor(subs[user_id'])
            /\ ceiling' = UserCeiling(subs[user_id'])

C4_ThresholdChangeClears ==
    /\ [](\A u \in Ids : stale[u] => ~user_alert_state[u].present)
    /\ [][C4_ChangeStep]_vars

\* Recipient 1 lowered the floor to 0.5 MP/s after a cycle at 0.5 MP/s, where
\* the default floor had latched: the latch pair is gone.
C4_Witness ==
    /\ pc = "idle" /\ stale[1] /\ subs[1].floor = 5 /\ last_metrics = 5
    /\ ~user_alert_state[1].present

\* C5: a payment that renews a lapsed subscription leaves the recipient with
\* both latches clear.
C5_RenewalResetsLatches ==
    [][\A u \in Ids :
         (/\ subs[u] # NoSub /\ ExpiredAt(subs[u], clock)
          /\ subs'[u] # NoSub /\ ~ExpiredAt(subs'[u], clock'))
         => /\ ~user_alert_state'[u].floor_triggered
            /\ ~user_alert_state'[u].ceiling_triggered]_vars

\* C6: a recipient whose subscription has lapsed (expiry # 0 and expiry <= now)
\* is passed over by the cycle: the step that reaches the recipient sends
\* nothing and leaves every latch as it is, and the cycle creates or changes
\* the alert state only of a recipient it evaluates, who has not lapsed.
C6_Step ==
    pc = "loop" =>
      LET reached == it_used = DictLen(entries) /\ NextSlot # 0 /\ it_len # 0
          u == IF NextSlot = 0 THEN 0 ELSE entries[NextSlot]
      IN  /\ (reached /\ subs[u].type # TYPE_GROUP /\ ExpiredAt(subs[u], now))
                => /\ pc' = "loop" /\ it_pos' = NextSlot
                   /\ user_alert_state' = user_alert_state
                   /\ floor_alert_triggered' = floor_alert_triggered
                   /\ ceiling_alert_triggered' = ceiling_alert_triggered
                   /\ n_sent' = n_sent /\ last_sent' = last_sent
          /\ \A v \in Ids :
                user_alert_state'[v] # user_alert_state[v]
                => reached /\ v = u /\ pc' = "floor" /\ ~ExpiredAt(subs[v], now)
          /\ pc' = "floor" => user_id' = u /\ ~ExpiredAt(subs[u], now)

C6_LapsedSkipped == [][C6_Step]_vars

\* The cycle has passed over recipient 1, whose subscription expired at exactly
\* `now`: the floor latch of an earlier cycle is still set although the
\* proofrate is back above the floor, and nothing was sent.
C6_Witness ==
    /\ pc = "loop" /\ it_pos >= 1 /\ it_pos <= Len(entries) /\ n_sent = 0
    /\ entries[it_pos] = 1 /\ subs[1].expiry = now
    /\ user_alert_state[1].floor_triggered /\ proofrate >= UserFloor(subs[1])

\* C7: a send_alert that fails changes nothing but the log: the cycle goes on
\* exactly where it would after a delivery (the next evaluation, the next
\* member of the pool), the latch transition that caused the notification
\* stays, and the notification is not attempted again.
C7_Step ==
    (SendCompletes /\ ~last_sent'.ok) =>
      /\ user_alert_state' = user_alert_state
      /\ floor_alert_triggered' = floor_alert_triggered
      /\ ceiling_alert_triggered' = ceiling_alert_triggered
      /\ state' \in {state, NoState}
      /\ ~aborted'
      /\ it_pos' = it_pos /\ it_used' = it_used /\ it_len' = it_len
      /\ pc = "send_floor" => pc' = "ceiling"
      /\ pc = "send_ceiling" => pc' = "loop"
      /\ pc \in {"g_send_floor", "g_send_ceiling"} =>
            /\ pending' = pending \ {last_sent'.to}
            /\ last_sent'.to \in pending
            /\ group_recipients' = group_recipients
            /\ pc' = IF pending' # {} THEN pc
                     ELSE IF pc = "g_send_floor" THEN "g_ceiling" ELSE "done"

C7_FailureDoesNotBlock == [][C7_Step]_vars

\* The floor alert to recipient 1 failed; the latch stayed set and the cycle is
\* now sending to recipient 2.
C7_Witness ==
    /\ pc = "send_floor" /\ user_id = 2 /\ msg = "low"
    /\ last_sent.to = 1 /\ ~last_sent.ok /\ last_sent.kind = "low"
    /\ user_alert_state[1].floor_triggered

\* C8: the pooled audience (ALERT_CHAT_IDS and the stored group records) is
\* evaluated after the loop over the individuals has ended, against one global
\* latch pair and the global default thresholds; on a transition every member
\* of the pool is sent the same notification exactly once.
PoolPcs == {"g_floor", "g_send_floor", "g_ceiling", "g_send_ceiling"}

C8_Order ==
    /\ (pc' = "g_floor" /\ pc # "g_floor")
         => pc = "loop" /\ \A i \in (it_pos + 1)..Len(entries) : entries[i] = 0
    /\ pc \in PoolPcs => pc' \in PoolPcs \cup {"done"}

C8_FloorStep ==
    pc = "g_floor" =>
      LET pool == alert_chat_ids
                    \cup {k \in Ids : subs[k] # NoSub /\ subs[k].type = "group"}
      IN  /\ group_recipients' = pool
          /\ IF pool = {}
             THEN pc' = "done" /\ floor_alert_triggered' = floor_alert_triggered
             ELSE IF proofrate < PROOFRATE_ALERT_FLOOR /\ ~floor_alert_triggered
             THEN /\ floor_alert_triggered' /\ msg' = "low"
                  /\ pending' = pool /\ pc' = "g_send_floor"
             ELSE IF proofrate >= PROOFRATE_ALERT_FLOOR /\ floor_alert_triggered
             THEN /\ ~floor_alert_triggered' /\ msg' = "recovered"
                  /\ pending' = pool /\ pc' = "g_send_floor"
             ELSE /\ floor_alert_triggered' = floor_alert_triggered
                  /\ pc' = "g_ceiling"
          /\ ceiling_alert_triggered' = ceiling_alert_triggered
          /\ user_alert_state' = user_alert_state
          /\ n_sent' = n_sent

C8_CeilingStep ==
    pc = "g_ceiling" =>
      /\ group_recipients' = group_recipients /\ group_recipients # {}
      /\ IF proofrate > PROOFRATE_ALERT_CEILING /\ ~ceiling_alert_triggered
         THEN /\ ceiling_alert_triggered' /\ msg' = "high"
              /\ pending' = group_recipients /\ pc' = "g_send_ceiling"
         ELSE IF proofrate <= PROOFRATE_ALERT_CEILING /\ ceiling_alert_triggered
         THEN /\ ~ceiling_alert_triggered' /\ msg' = "normalized"
              /\ pending' = group_recipients /\ pc' = "g_send_ceiling"
         ELSE /\ ceiling_alert_triggered' = ceiling_alert_triggered
              /\ pc' = "done"
      /\ floor_alert_triggered' = floor_alert_triggered
      /\ user_alert_state' = user_alert_state
      /\ n_sent' = n_sent

C8_Sends ==
    pc \in {"g_send_floor", "g_send_ceiling"} =>
      /\ pending # {} /\ pending \subseteq group_recipients
      /\ msg' = msg /\ group_recipients' = group_recipients
      /\ floor_alert_triggered' = floor_alert_triggered
      /\ ceiling_alert_triggered' = ceiling_alert_triggered
      /\ \/ pending' = pending /\ n_sent' = n_sent /\ pc' = pc
         \/ /\ SendCompletes
            /\ last_sent'.to \in pending /\ last_sent'.stream = "pool"
            /\ last_sent'.kind = msg
            /\ pending' = pending \ {last_sent'.to}
            /\ pc' = IF pending' # {} THEN pc
                     ELSE IF pc = "g_send_floor" THEN "g_ceiling" ELSE "done"

C8_Pool == [][C8_Order /\ C8_FloorStep /\ C8_CeilingStep /\ C8_Sends]_vars

\* With no individual subscriber, the pool of one group and one configured
\* chat has been sent the floor alert: two sends, the global latch set.
C8_Witness ==
    /\ pc = "g_ceiling" /\ group_recipients = {3, 4} /\ n_sent = 2
    /\ DictKeys(entries) = {3} /\ floor_alert_triggered
    /\ last_sent.stream = "pool" /\ last_sent.kind = "low"

\* C9: when the fetch fails the cycle ends at once: no notification, and the
\* last snapshot, every latch and the store stay as they were; a fetch starts
\* only when the scheduler starts a cycle.
C9_Step ==
    /\ (pc = "fetch" /\ pc' # "fetch" /\ proofrate' = NoMetrics)
         => /\ pc' = "done" /\ ~aborted'
            /\ last_metrics' = last_metrics
            /\ user_alert_state' = user_alert_state
            /\ floor_alert_triggered' = floor_alert_triggered
            /\ ceiling_alert_triggered' = ceiling_alert_triggered
            /\ subs' = subs /\ entries' = entries
            /\ n_sent' = n_sent
    /\ (pc = "done" /\ proofrate = NoMetrics)
         => /\ pc' = "idle"
            /\ last_metrics' = last_metrics
            /\ user_alert_state' = user_alert_state
            /\ floor_alert_triggered' = floor_alert_triggered
            /\ ceiling_alert_triggered' = ceiling_alert_triggered
            /\ subs' = subs /\ DictKeys(entries') = DictKeys(entries)
    /\ (pc' = "fetch" /\ pc # "fetch") => pc = "idle"
    /\ (pc = "fetch" /\ pc' # "fetch" /\ pc' # "done") => proofrate' # NoMetrics

C9_FetchFailureSkips ==
    /\ []((pc = "done" /\ proofrate = NoMetrics) => n_sent = 0)
    /\ [][C9_Step]_vars

\* A cycle ended on a failed fetch while an earlier snapshot and a set latch
\* are in place.
C9_Witness ==
    /\ pc = "done" /\ proofrate = NoMetrics /\ last_metrics = 5
    /\ user_alert_state[1].floor_triggered /\ n_sent = 0

\* C10: _rpc_call never raises: it returns None when the status is not 2xx,
\* on a transport error or timeout, when the response carries a JSON-RPC
\* error and when the body is malformed; and it issues one HTTP request per
\* call, whatever the outcome.
RpcFailure(resp) ==
    \/ resp.kind \in {"transport_error", "timeout"}
    \/ ~(resp.status >= 200 /\ resp.status < 300)
    \/ resp.body.shape # "object"
    \/ resp.body.has_error

C10_RpcNeverRaises ==
    /\ rpc_raised = "none"
    /\ rpc_pc \in {"awaiting", "returned"} => rpc_posts = 1
    /\ rpc_pc = "returned" =>
         /\ rpc_result \in {"None", "value"}
         /\ RpcFailure(rpc_response) => rpc_result = "None"

\* The second call of a client timed out and returned None.
C10_Witness ==
    /\ rpc_pc = "returned" /\ request_id = 2 /\ rpc_response.kind = "timeout"
    /\ rpc_result = "None" /\ rpc_raised = "none" /\ rpc_posts = 1

\* ------------------------------------------------------------------- C11
\* The entitlement test, said without the code's words.
Entitled(sub, t) == sub # NoSub /\ (sub.expiry = 0 \/ sub.expiry > t)
\* The records the store holds, each looked at one second before its expiry,
\* at its expiry and one second after it, and now.
C11_Times(sub) == {sub.expiry - 1, sub.expiry, sub.expiry + 1, clock}

\* C11: isActive(id) is false when the id has no record, true when the
\* record's expiry is 0 whatever the time, and otherwise true exactly when
\* the expiry is later than now (an expiry equal to now is inactive); the
\* cycle's skip test agrees with it for every record and every time.
C11_IsActive ==
    \A u \in Ids :
        /\ is_subscription_active(u) = Entitled(subs[u], clock)
        /\ subs[u] = NoSub => ~is_subscription_active(u)
        /\ (subs[u] # NoSub /\ subs[u].expiry = 0) => is_subscription_active(u)
        /\ (subs[u] # NoSub /\ subs[u].expiry = clock /\ clock # 0)
               => ~is_subscription_active(u)
        /\ subs[u] # NoSub =>
               /\ Lapsed(subs[u], clock) = ~is_subscription_active(u)
               /\ \A t \in C11_Times(subs[u]) :
                      Lapsed(subs[u], t) = ~Entitled(subs[u], t)

\* A subscription at the very second of its expiry, beside a lifetime one.
C11_Witness ==
    /\ scenario = "store"
    /\ \E u \in Ids : subs[u] # NoSub /\ subs[u].expiry = clock
                      /\ ~is_subscription_active(u)
    /\ \E u \in Ids : subs[u] # NoSub /\ subs[u].expiry = 0
                      /\ is_subscription_active(u)

\* ------------------------------------------------------------------- C12
\* The document that holds exactly the store s, its keys in the order e of the
\* dict.
C12_DocumentOf(e, s) ==
    [state |-> "json",
     order |-> [i \in 1..Len(Compact(e)) |-> Str(Compact(e)[i])],
     subscribers |-> [k \in {Str(i) : i \in {j \in Ids : s[j] # NoSub}}
                        |-> JsonOf(s[IntOf(k)])]]

C12_Step ==
    (n_ops' = n_ops + 1 /\ last_op'.op = "activate") =>
        LET u == last_op'.id
            days == last_op'.arg[1]
            old == IF subs[u] = NoSub THEN 0 ELSE subs[u].expiry
            later == IF old > clock THEN old ELSE clock
        IN  /\ subs'[u] # NoSub
            /\ subs'[u].expiry = later + days * 86400
            /\ old > clock => subs'[u].expiry = old + days * 86400
            /\ old <= clock => subs'[u].expiry = clock + days * 86400
            /\ last_op'.ret = subs'[u].expiry
            /\ \A v \in Ids \ {u} : subs'[v] = subs[v]
            /\ io = "ok" => disk' = C12_DocumentOf(entries', subs')

\* C12: activate(id, days) sets the expiry to max(current expiry, now) +
\* days * 86400 (a running subscription is extended from its end, a lapsed or
\* absent one starts now), returns the new expiry and persists the store.
C12_Activate == [][C12_Step]_vars

\* A second payment before the first has run out: two days from the start.
C12_Witness ==
    /\ scenario = "store"
    /\ last_op.op = "activate"
    /\ last_op.ret = clock + 2 * SecondsPerDay
    /\ subs[last_op.id].expiry = last_op.ret
    /\ disk = C12_DocumentOf(entries, subs)

\* ------------------------------------------------------------------- C13
\* The argument lists /setalerts turns down, from the wording of the claim.
C13_Rejected(args) ==
    \/ Len(args) # 2
    \/ \E i \in 1..Len(args) : ~args[i].parses
    \/ \E i \in 1..Len(args) : args[i].value # NaN /\ args[i].value < 0
    \/ /\ Len(args) = 2
       /\ args[1].value # NaN /\ args[2].value # NaN
       /\ args[1].value >= args[2].value

C13_Step ==
    (n_ops' = n_ops + 1 /\ last_op'.op = "setalerts"
        /\ C13_Rejected(last_op'.arg)) =>
        /\ subs' = subs
        /\ entries' = entries
        /\ user_alert_state' = user_alert_state
        /\ disk' = disk
        /\ ~last_op'.saved
        /\ last_op'.result # "ok"

\* C13: a threshold change that is rejected (floor >= ceiling, a negative
\* value, an argument that is no number, a wrong number of arguments) leaves
\* the custom thresholds, the latch pair and the persisted store as they were.
C13_RejectedChangesNothing == [][C13_Step]_vars

\* /setalerts 1.0 0.5 turned down, the thresholds 0.5 and 1.0 of an earlier
\* command and a set floor latch still there.
C13_Witness ==
    /\ scenario = "store"
    /\ last_op.op = "setalerts"
    /\ last_op.arg = <<Numeral(10), Numeral(5)>>
    /\ last_op.result = "order"
    /\ \E u \in UserIds :
         /\ last_op.id = u
         /\ subs[u] # NoSub /\ subs[u].floor = 5 /\ subs[u].ceiling = 10
         /\ user_alert_state[u].present
         /\ user_alert_state[u].floor_triggered

\* ------------------------------------------------------------------- C14
\* C14: in every store state reached by activate, setalerts, resetalerts,
\* unsubscribe and group add/remove, a record with both thresholds custom
\* has its floor strictly below its ceiling.
C14_FloorBelowCeiling ==
    \A u \in Ids :
        (/\ subs[u] # NoSub
         /\ subs[u].floor \notin {NoneVal, Missing}
         /\ subs[u].ceiling \notin {NoneVal, Missing})
        => /\ subs[u].floor # NaN
           /\ subs[u].ceiling # NaN
           /\ subs[u].floor < subs[u].ceiling

\* ------------------------------------------------------------------- C18
\* What an operation that changed the store has left in memory.
C18_Effect(op, u, arg, ret) ==
    CASE op = "activate" -> subs'[u] # NoSub /\ subs'[u].expiry = ret
      [] op = "setalerts" -> /\ subs'[u].floor = arg[1].value
                             /\ subs'[u].ceiling = arg[2].value
      [] op = "resetalerts" -> /\ subs'[u].floor = NoneVal
                               /\ subs'[u].ceiling = NoneVal
      [] op = "unsubscribe" -> subs'[u] = NoSub
      [] op = "group_add" -> subs'[u] # NoSub /\ subs'[u].type = TYPE_GROUP
      [] op = "group_remove" -> subs'[u] = NoSub
      [] OTHER -> FALSE

C18_Step ==
    (n_ops' = n_ops + 1) =>
        /\ (subs' # subs \/ entries' # entries) => last_op'.saved
        /\ last_op'.saved =>
             /\ C18_Effect(last_op'.op, last_op'.id, last_op'.arg, last_op'.ret)
             /\ last_op'.result = "ok"
             /\ io = "ok" => disk' = C12_DocumentOf(entries', subs')
             /\ io = "open_fails" => disk' = disk
             /\ io = "write_fails" => disk'.state # "json"
        /\ ~last_op'.saved => disk' = disk

\* C18: every mutating operation of the store (activate, set thresholds,
\* reset, remove, group add/remove) persists the whole store before it
\* returns; when the write fails the mutation stays in memory and the
\* operation completes normally.
C18_MutationsPersist == [][C18_Step]_vars

\* An unsubscribe done while the file could not be opened: the record is gone
\* from memory and still in the file.
C18_Witness ==
    /\ scenario = "store"
    /\ io = "open_fails"
    /\ last_op.op = "unsubscribe" /\ last_op.saved /\ last_op.result = "ok"
    /\ subs[last_op.id] = NoSub
    /\ disk.state = "json"
    /\ Str(last_op.id) \in DOMAIN disk.subscribers

\* ------------------------------------------------------------------- C19
C19_Step ==
    (n_ops' = n_ops + 1 /\ last_op'.op = "set_thresholds") =>
        LET u == last_op'.id
            f == last_op'.arg[1]
            c == last_op'.arg[2]
        IN  IF subs[u] = NoSub
            THEN /\ subs' = subs
                 /\ entries' = entries
                 /\ disk' = disk
                 /\ ~last_op'.saved
            ELSE /\ subs'[u].floor = IF f = NoneVal THEN subs[u].floor ELSE f
                 /\ subs'[u].ceiling = IF c = NoneVal THEN subs[u].ceiling ELSE c
                 /\ subs'[u].type = subs[u].type
                 /\ subs'[u].expiry = subs[u].expiry
                 /\ \A v \in Ids \ {u} : subs'[v] = subs[v]
                 /\ entries' = entries

\* C19: setThresholds(id, floor?, ceiling?) does nothing when the id has no
\* record (none is created, nothing is persisted); a partial update changes
\* only the bound that was supplied and leaves the other bound, the kind and
\* the expiry as they were.
C19_SetThresholds == [][C19_Step]_vars

\* Only the ceiling supplied, the floor of an earlier call still there.
C19_Witness ==
    /\ scenario = "api"
    /\ last_op.op = "set_thresholds" /\ last_op.result = "ok"
    /\ last_op.arg = <<NoneVal, 10>>
    /\ subs[last_op.id].floor = 5
    /\ subs[last_op.id].ceiling = 10

\* ------------------------------------------------------------------- C20
\* A bound of a record: the custom value when it is set, else the default.
C20_Bound(v, default) == IF v = NoneVal \/ v = Missing THEN default ELSE v
\* Records with each bound set, null or lacking, and no record at all.
C20_Records ==
    {NoSub} \cup
    {[type |-> TYPE_USER, expiry |-> LIFETIME_EXPIRY, floor |-> f, ceiling |-> c] :
        f \in {NoneVal, Missing, 5}, c \in {NoneVal, Missing, 10}}
C20_Expected(sub) ==
    <<C20_Bound(sub.floor, PROOFRATE_ALERT_FLOOR),
      C20_Bound(sub.ceiling, PROOFRATE_ALERT_CEILING)>>

C20_Step ==
    /\ \A sub \in C20_Records : <<UserFloor(sub), UserCeiling(sub)>> = C20_Expected(sub)
    /\ \A u \in Ids : get_user_thresholds(u)' = C20_Expected(subs'[u])
    /\ (pc = "loop" /\ pc' = "floor") =>
           <<floor', ceiling'>> = C20_Expected(subs[user_id'])
    /\ pc = "floor" =>
           /\ <<floor, ceiling>> = C20_Expected(subs[user_id])
           /\ (pc' = "send_floor" /\ msg' = "low")
                  => proofrate < C20_Expected(subs[user_id])[1]
           /\ (pc' = "send_floor" /\ msg' = "recovered")
                  => proofrate >= C20_Expected(subs[user_id])[1]
    /\ pc \in {"floor", "send_floor"} => ceiling' = ceiling
    /\ pc = "ceiling" =>
           /\ (pc' = "send_ceiling" /\ msg' = "high") => proofrate > ceiling
           /\ (pc' = "send_ceiling" /\ msg' = "normalized") => proofrate <= ceiling

\* C20: thresholds(id) gives, for each bound independently, the custom value
\* when one is set and the default otherwise, also for an id without a
\* record; the cycle compares an individual's proofrate with these values,
\* read when it reaches the individual.
C20_Thresholds == [][C20_Step]_vars

\* The cycle about to evaluate a subscriber whose thresholds are 0.5 and 1.0.
C20_Witness ==
    /\ pc = "floor"
    /\ subs[user_id].floor = 5 /\ subs[user_id].ceiling = 10
    /\ floor = 5 /\ ceiling = 10
    /\ proofrate > 10

\* ------------------------------------------------------------------- C15
\* A first start that finds legacy id lists and no paid_subscribers.json.
C15_Migrates ==
    /\ boots = 0 /\ boots' = 1
    /\ disk = EmptyDoc
    /\ io = "ok"
    /\ Listed(legacy_chat_ids) \cup Listed(legacy_group_ids) # {}
C15_Canonical(kind) ==
    [shape |-> "object", type |-> kind, expiry |-> 0, floor |-> NoneVal,
     ceiling |-> NoneVal]

C15_Step ==
    C15_Migrates =>
        /\ disk'.state = "json"
        /\ DOMAIN disk'.subscribers =
               {Str(i) : i \in Listed(legacy_chat_ids) \cup Listed(legacy_group_ids)}
        /\ \A i \in Listed(legacy_group_ids) :
               disk'.subscribers[Str(i)] = C15_Canonical(TYPE_GROUP)
        /\ \A i \in Listed(legacy_chat_ids) \ Listed(legacy_group_ids) :
               disk'.subscribers[Str(i)] = C15_Canonical(TYPE_USER)
        /\ load_paid_subscribers(<<>>, <<>>, disk').subs = subs'

\* C15, amended: legacy id lists loaded and saved again give a canonical
\* document in which every listed id is a lifetime record with null
\* thresholds, a group when the id is in group_ids and an individual when it
\* is in chat_ids only.
C15_MigrationRoundTrip == [][C15_Step]_vars

\* C15 as stated: every listed id is a lifetime record with null thresholds,
\* an individual for the ids of chat_ids and a group for those of group_ids.
C15_ListedKinds ==
    [][C15_Migrates =>
        /\ disk'.state = "json"
        /\ DOMAIN disk'.subscribers =
               {Str(i) : i \in Listed(legacy_chat_ids) \cup Listed(legacy_group_ids)}
        /\ \A i \in Listed(legacy_chat_ids) :
               disk'.subscribers[Str(i)] = C15_Canonical(TYPE_USER)
        /\ \A i \in Listed(legacy_group_ids) :
               disk'.subscribers[Str(i)] = C15_Canonical(TYPE_GROUP)]_vars

\* chat_ids [1, 2] and group_ids [3] migrated into an empty store.
C15_Witness ==
    /\ boots = 1
    /\ last_op.op = "startup" /\ last_op.arg = <<EmptyDoc>>
    /\ legacy_chat_ids = <<1, 2>> /\ legacy_group_ids = <<3>>
    /\ DOMAIN disk.subscribers = {<<1>>, <<2>>, <<3>>}
    /\ disk.subscribers[<<1>>] = C15_Canonical(TYPE_USER)
    /\ disk.subscribers[<<2>>] = C15_Canonical(TYPE_USER)
    /\ disk.subscribers[<<3>>] = C15_Canonical(TYPE_GROUP)

\* ------------------------------------------------------------------- C16
\* C16: on load every legacy record, a bare expiry included, becomes
\* {individual, expiry, null, null}, and the store is written back exactly
\* once: later loads find canonical records only and write nothing.
C16_NormalizedOnce ==
    [][(boots' = boots + 1) =>
        /\ \A k \in DOMAIN disk.subscribers :
               disk.subscribers[k].shape = "int" =>
                   subs'[IntOf(k)] = [type |-> TYPE_USER,
                                      expiry |-> disk.subscribers[k].expiry,
                                      floor |-> NoneVal, ceiling |-> NoneVal]
        /\ (io = "ok" /\ disk'.state = "json") =>
               \A k \in DOMAIN disk'.subscribers :
                   /\ disk'.subscribers[k].shape = "object"
                   /\ disk'.subscribers[k].type \in {TYPE_USER, TYPE_GROUP}
        /\ (io = "ok" /\ boots >= 1) => ~last_op'.saved /\ disk' = disk]_vars

\* ------------------------------------------------------------------- C17
C17_Step ==
    (boots' = boots + 1 /\ disk.state = "json") =>
        \A i \in Listed(legacy_chat_ids) \cup Listed(legacy_group_ids) :
            (/\ Str(i) \in DOMAIN disk.subscribers
             /\ disk.subscribers[Str(i)].shape = "object"
             /\ disk.subscribers[Str(i)].type \in {TYPE_USER, TYPE_GROUP})
            => /\ subs'[i].type = disk.subscribers[Str(i)].type
               /\ subs'[i].expiry = disk.subscribers[Str(i)].expiry
               /\ subs'[i].floor = disk.subscribers[Str(i)].floor
               /\ subs'[i].ceiling = disk.subscribers[Str(i)].ceiling

\* C17: an id that is in a legacy list and in the canonical document keeps
\* the canonical record: its kind, expiry and thresholds.
C17_CanonicalWins == [][C17_Step]_vars

\* Id 3 is in group_ids and an individual with thresholds 0.5 and 1.0 in
\* paid_subscribers.json: it is loaded as that individual.
C17_Witness ==
    /\ boots = 1
    /\ 3 \in Listed(legacy_group_ids)
    /\ last_op.op = "startup"
    /\ last_op.arg[1].state = "json"
    /\ <<3>> \in DOMAIN last_op.arg[1].subscribers
    /\ last_op.arg[1].subscribers[<<3>>].floor = 5
    /\ subs[3] = [type |-> TYPE_USER, expiry |-> LIFETIME_EXPIRY, floor |-> 5,
                  ceiling |-> 10]

\* ------------------------------------------------------------------- C21
\* C21: the numeric configuration is validated before use: no poll cycle
\* runs with a poll interval <= 0 or with the global floor >= the global
\* ceiling.
C21_ValidatedConfig ==
    pc # "idle" => /\ MONITOR_INTERVAL_MINUTES > 0
                   /\ PROOFRATE_ALERT_FLOOR < PROOFRATE_ALERT_CEILING

\* ------------------------------------------------------------------- C22
\* C22: poll cycles never overlap: at most one instance of the cycle runs, a
\* cycle starts only when none is running, and a tick that fires while a cycle
\* runs is skipped and leaves the running cycle as it is.
C22_Step ==
    /\ (pc = "idle" /\ pc' # "idle") =>
          scheduler.instances = 0 /\ scheduler'.instances = 1 /\ pc' = "fetch"
    /\ (pc # "idle" /\ scheduler'.last_tick # scheduler.last_tick) =>
          /\ scheduler'.last_tick = "skipped"
          /\ scheduler'.instances = scheduler.instances
          /\ UNCHANGED botVars
C22_NoOverlap ==
    /\ [](scheduler.instances \in {0, 1} /\ (scheduler.instances = 1 <=> pc # "idle"))
    /\ [][C22_Step]_vars
C22_Witness ==
    /\ scheduler.last_tick = "skipped"
    /\ scheduler.instances = 1
    /\ pc = "send_floor"

\* ------------------------------------------------------------------- C23
\* No step of a cycle, and no return of one, takes the scheduler out of the
\* state "started"; the steps that do leave the cycle where it is.
C23_Step ==
    /\ (pc' # pc \/ scheduler'.instances # scheduler.instances
          \/ scheduler'.last_run # scheduler.last_run)
         => (scheduler.state = "started" /\ scheduler'.state = "started")
    /\ (pc = "done" /\ pc' = "idle") =>
         (scheduler'.last_run = Outcome /\ scheduler'.state = "started")
\* C23: no cycle's outcome stops the monitor: a cycle that ends in a fetch
\* failure, a delivery failure or an exception leaves the scheduler started
\* with its job, a further cycle starts after it, and under the fair scheduler
\* (one that is never shut down) a cycle starts infinitely often.  The only
\* way out of "started" is the shutdown of the application.
C23_CyclesContinue ==
    /\ [][C23_Step]_vars
    /\ []<>(pc = "fetch" \/ scheduler.state = "stopped")
    /\ (pc = "done" /\ Outcome # "ok") ~> (pc = "fetch" \/ scheduler.state = "stopped")
C23_Witness ==
    /\ pc = "fetch" /\ scheduler.state = "started"
    /\ scheduler.last_run = "error"
    /\ subs[1] = NoSub

\* ------------------------------------------------------------------- C24
\* The two differences _calculate_metrics works from, read off the replies of
\* a fetch_metrics call.
C24_Field(block, k) == IF k \in DOMAIN block THEN block[k] ELSE 0
C24_Snapshot ==
    /\ last_op.op = "fetch_metrics"
    /\ ~last_op.arg[1].none /\ "height" \in DOMAIN last_op.arg[1].value
    /\ last_op.arg[1].value.height # 0
    /\ ~last_op.arg[2].none /\ last_op.arg[2].value # <<>>
    /\ ~last_op.arg[2].value[1].none
    /\ DOMAIN last_op.arg[2].value[1].value # {}
C24_TimeDiff ==
    C24_Field(last_op.arg[1].value, "timestamp")
      - C24_Field(last_op.arg[2].value[1].value, "timestamp")
C24_WorkDiff ==
    C24_Field(last_op.arg[1].value, "accumulatedWork")
      - C24_Field(last_op.arg[2].value[1].value, "accumulatedWork")
\* C24: with both blocks fetched a snapshot is produced whatever their fields
\* are; its proofrate value is exactly 0.0 whenever time_diff <= 0 or
\* work_diff <= 0; average block time, estimated time to adjustment and
\* adjustment ratio are "N/A" when time_diff <= 0, and the difficulty is "N/A"
\* when work_diff <= 0.
C24_InsufficientData ==
    C24_Snapshot =>
      LET m == last_op.ret.metrics
      IN  /\ ~m.none
          /\ (C24_TimeDiff <= 0 \/ C24_WorkDiff <= 0) => m.proofrate_value = Zero
          /\ (C24_TimeDiff > 0 /\ C24_WorkDiff > 0) => m.proofrate_value.num > 0
          /\ C24_TimeDiff <= 0 =>
               /\ m.avg_block_time = NA
               /\ m.est_time_to_adj = NA
               /\ m.next_adj_ratio = NA
          /\ C24_WorkDiff <= 0 => m.difficulty = NA
C24_Witness ==
    /\ C24_Snapshot
    /\ C24_TimeDiff < 0 /\ C24_WorkDiff > 0
    /\ last_op.ret.metrics.proofrate_value = Zero
    /\ last_op.ret.metrics.avg_block_time = NA
    /\ last_op.ret.metrics.difficulty # NA

\* ------------------------------------------------------------------- C25
C25_Expected(counter) ==
    IF counter = 0 THEN 0 ELSE ((counter - 1) % BLOCKS_PER_EPOCH) + 1
C25_Counter == C24_Field(last_op.arg[1].value, "epochCounter")
\* C25: for every counter >= 0 (here up to past the second epoch boundary)
\* epoch_block is the counter mod BLOCKS_PER_EPOCH, except BLOCKS_PER_EPOCH at a
\* nonzero multiple; it lies in 0..BLOCKS_PER_EPOCH and is 0 only for counter
\* 0; a snapshot carries this epoch_block for the tip's counter, and its
\* blocks_to_adj is BLOCKS_PER_EPOCH - epoch_block, in 0..BLOCKS_PER_EPOCH.
C25_EpochPosition ==
    /\ n_ops = 0 =>
         \A counter \in 0..(2 * BLOCKS_PER_EPOCH + 1) :
           /\ epoch_block(counter) = C25_Expected(counter)
           /\ epoch_block(counter) \in 0..BLOCKS_PER_EPOCH
           /\ epoch_block(counter) = 0 <=> counter = 0
           /\ counter % BLOCKS_PER_EPOCH # 0 =>
                epoch_block(counter) = counter % BLOCKS_PER_EPOCH
    /\ C24_Snapshot =>
         LET m == last_op.ret.metrics
         IN  /\ m.epoch_progress.epoch_block = C25_Expected(C25_Counter)
             /\ IntOf(m.blocks_to_adj) = BLOCKS_PER_EPOCH - C25_Expected(C25_Counter)
             /\ IntOf(m.blocks_to_adj) \in 0..BLOCKS_PER_EPOCH
C25_Witness ==
    /\ C24_Snapshot
    /\ C25_Counter = 2 * BLOCKS_PER_EPOCH
    /\ last_op.ret.metrics.epoch_progress.epoch_block = BLOCKS_PER_EPOCH
    /\ last_op.ret.metrics.blocks_to_adj = <<0>>

\* ------------------------------------------------------------------- C26
C26_TipHeight ==
    IF last_op.arg[1].none \/ "height" \notin DOMAIN last_op.arg[1].value
    THEN 0 ELSE last_op.arg[1].value.height
C26_Anchor == IF C26_TipHeight > 101 THEN C26_TipHeight - 100 ELSE 1
\* C26: fetch_metrics returns no snapshot and asks for no anchor when the tip
\* query fails or the tip height is 0; otherwise it asks for the block at
\* height max(1, tip - 100) and returns no snapshot when that block is
\* missing; the snapshot it returns reports the tip's height as latest block
\* and is computed with num_intervals = tip height - anchor height.  Once it
\* has returned, the client's last request is the tip query in the first
\* case and the query for the anchor in the second.
C26_FetchMetrics ==
    last_op.op = "fetch_metrics" =>
      IF C26_TipHeight = 0
      THEN /\ last_op.ret.metrics.none /\ last_op.ret.asked = <<>>
           /\ fetch = NoCall => rpc_method = "getTip"
      ELSE /\ last_op.ret.asked = <<C26_Anchor>>
           /\ fetch = NoCall => rpc_method = "getBlocksByHeight"
           /\ ~C24_Snapshot => last_op.ret.metrics.none
           /\ C24_Snapshot =>
                /\ ~last_op.ret.metrics.none
                /\ last_op.ret.num_intervals = C26_TipHeight - C26_Anchor
                /\ IntOf(last_op.ret.metrics.latest_block) = C26_TipHeight
                /\ (C24_TimeDiff > 0 /\ C26_TipHeight > C26_Anchor) =>
                     last_op.ret.metrics.avg_block_time.minutes * 60
                       + last_op.ret.metrics.avg_block_time.seconds
                       = C24_TimeDiff \div (C26_TipHeight - C26_Anchor)
C26_Witness ==
    /\ C24_Snapshot
    /\ C26_TipHeight = 50
    /\ last_op.ret.asked = <<1>>
    /\ fetch = NoCall /\ rpc_method = "getBlocksByHeight" /\ request_id = 2
    /\ last_op.ret.num_intervals = 49
    /\ C24_TimeDiff = 60000
    /\ last_op.ret.metrics.avg_block_time = [minutes |-> 20, seconds |-> 24]

\* ------------------------------------------------------------------- C27
C27_Mid == (locator.low + locator.high + 1) \div 2
C27_Step ==
    /\ (locator.phase = "bisect" /\ locator.low < locator.high) =>
         /\ locator'.phase = "bisect"
         /\ IF C27_Mid <= locator.tip
            THEN locator'.low = C27_Mid /\ locator'.high = locator.high
            ELSE locator'.low = locator.low /\ locator'.high < locator.high
    /\ (locator.phase # "done" /\ locator'.phase = "done" /\ locator'.result # NoneVal)
         => locator.low = locator.high
\* C27: for a chain of height T whose blocks exist exactly at the heights
\* h <= T, the height-probe search terminates; it returns T when a block was
\* found at the lower probe and "unknown" when none was; each round of the
\* binary search moves low up to the midpoint (rounded up) when a block exists
\* there and moves high down otherwise, and a height is returned only at
\* low = high.
C27_TipLocator ==
    /\ <>(locator.phase = "done")
    /\ [](locator.phase = "done" =>
            locator.result = IF locator.tip >= BracketLow THEN locator.tip ELSE NoneVal)
    /\ [](locator.phase = "bisect" =>
            locator.low <= locator.tip /\ locator.tip <= locator.high)
    /\ [][C27_Step]_vars
C27_Witness ==
    /\ locator.phase = "done"
    /\ locator.tip = 2 * BracketHigh + 1
    /\ locator.result = locator.tip

\* ------------------------------------------------------------------- C28
\* The blocks of the window whose transactions are fetched, and those whose
\* fetch gave transactions.
C28_Asked ==
    {i \in DOMAIN last_op.arg[1].value :
       /\ "txids" \in DOMAIN last_op.arg[1].value[i]
       /\ last_op.arg[1].value[i].txids # <<>>}
C28_Fetched ==
    {i \in C28_Asked : ~last_op.arg[2][last_op.arg[1].value[i].height].none}
C28_Txs(i) == last_op.arg[2][last_op.arg[1].value[i].height].value
RECURSIVE C28_Sum(_)
C28_Sum(terms) ==
    IF terms = {} THEN 0
    ELSE LET t == CHOOSE t \in terms : TRUE
         IN  t[Len(t)] + C28_Sum(terms \ {t})
\* One term per seed that counts: block, transaction, output, seed, gift.
C28_Terms ==
    UNION {UNION {UNION {
      {<<i, j, k, l, C28_Txs(i)[j].outputs[k].seeds[l].gift>> :
         l \in {l \in DOMAIN C28_Txs(i)[j].outputs[k].seeds :
                  /\ "gift" \in DOMAIN C28_Txs(i)[j].outputs[k].seeds[l]
                  /\ ~ (/\ "isCoinbase" \in DOMAIN C28_Txs(i)[j].outputs[k].seeds[l]
                        /\ C28_Txs(i)[j].outputs[k].seeds[l].isCoinbase)}} :
        k \in {k \in DOMAIN C28_Txs(i)[j].outputs :
                 "seeds" \in DOMAIN C28_Txs(i)[j].outputs[k]}} :
       j \in {j \in DOMAIN C28_Txs(i) : "outputs" \in DOMAIN C28_Txs(i)[j]}} :
      i \in C28_Fetched}
\* C28: when the block-range fetch fails there is no result; when it gives
\* blocks a result is returned even if the transaction fetch fails for some of
\* them, and its tx_count and volume are those of the transactions of the
\* blocks whose fetch succeeded.
C28_FailureHandling ==
    last_op.op = "fetch_24h_volume" =>
      /\ last_op.arg[1].none => last_op.ret.none
      /\ (~last_op.arg[1].none /\ last_op.arg[1].value # <<>>) =>
           /\ ~last_op.ret.none
           /\ last_op.ret.tx_count
                = C28_Sum({<<i, Len(C28_Txs(i))>> : i \in C28_Fetched})
           /\ last_op.ret.volume_nock.num = C28_Sum(C28_Terms)
C28_Witness ==
    /\ last_op.op = "fetch_24h_volume"
    /\ ~last_op.arg[1].none
    /\ C28_Asked = {1, 2}
    /\ C28_Fetched = {2}
    /\ ~last_op.ret.none
    /\ last_op.ret.tx_count = 1
    /\ last_op.ret.volume_nock.num = 65543

\* ------------------------------------------------------------------- C29
\* C29: the volume of a result is the sum of the gifts of the non-coinbase
\* seeds of all outputs of all transactions of the window's blocks that list a
\* transaction id (in NOCK: divided by 65,536); tx_count counts every
\* transaction returned; block_count is the number of blocks of the window.
C29_VolumeResult ==
    (last_op.op = "fetch_24h_volume" /\ ~last_op.ret.none) =>
      /\ last_op.ret.volume_nock = [num |-> C28_Sum(C28_Terms), den |-> 65536]
      /\ last_op.ret.tx_count
           = Cardinality(UNION {{<<i, j>> : j \in DOMAIN C28_Txs(i)} : i \in C28_Fetched})
      /\ last_op.ret.block_count = Len(last_op.arg[1].value)
C29_Witness ==
    /\ last_op.op = "fetch_24h_volume"
    /\ ~last_op.ret.none
    /\ Len(last_op.arg[1].value) = 2
    /\ C28_Asked = {2}
    /\ last_op.arg[2][2] = Reply(<<TxCoinbase, TxBare>>)
    /\ last_op.ret = [none |-> FALSE, volume_nock |-> [num |-> 0, den |-> 65536],
                      tx_count |-> 2, block_count |-> 2]

\* ------------------------------------------------------------------- C30
C30_Step ==
    n_ops' = n_ops + 1 =>
      /\ last_op'.op = "unsubscribe" =>
           /\ subs'[last_op'.id] = NoSub
           /\ user_alert_state'[last_op'.id] = NoState
      /\ (last_op'.op = "activate" /\ subs[last_op'.id] = NoSub) =>
           /\ subs'[last_op'.id] # NoSub
           /\ user_alert_state'[last_op'.id] = NoState
      /\ last_op'.op = "group_add" =>
           /\ subs'[last_op'.id].type = TYPE_GROUP
           /\ subs'[last_op'.id].expiry = 0
           /\ \A t \in {clock, MaxTime, MaxExpiry} : ~Lapsed(subs'[last_op'.id], t)
      /\ last_op'.op = "group_remove" => subs'[last_op'.id] = NoSub
\* C30: /unsubscribe leaves the sender without a store record and without an
\* alert state, so an id without a record never has a latch and a
\* subscription activated for it afterwards starts with none; the bot joining
\* a group leaves a group record with expiry 0, which has not lapsed now nor at
\* the latest times of the run; the bot leaving the group leaves no record for it.
C30_Lifecycle ==
    /\ [][C30_Step]_vars
    /\ [](\A u \in Ids : subs[u] = NoSub => user_alert_state[u] = NoState)
C30_Witness ==
    /\ last_op.op = "activate" /\ last_op.id = 1
    /\ n_ops = 2
    /\ subs[1].floor = Missing
    /\ user_alert_state[1] = NoState
    /\ subs[3] # NoSub /\ subs[3].type = TYPE_GROUP

\* ------------------------------------------------------------------- C31
\* C31: a handler that adds or removes a recipient (unsubscribe, a first
\* activation, the bot joining or leaving a group) while a cycle is suspended
\* in a delivery does not end that cycle: the loop over the individuals is
\* never left by an exception, so every remaining individual and the pooled
\* audience are still evaluated.
C31_MutationSafe == [][pc = "loop" => ~aborted']_vars

\* ------------------------------------------------------------------- C32
C32_Canonical(rec) ==
    /\ rec.type \in {TYPE_USER, TYPE_GROUP}
    /\ rec.expiry \in Nat
    /\ rec.floor # Missing
    /\ rec.ceiling # Missing
\* C32: after any sequence of store operations every record in memory, and
\* every member of the persisted document, has the canonical shape: a kind
\* (user or group), an expiry, a floor and a ceiling; in particular the record
\* an activation leaves for an id that had none is a complete individual record.
C32_CanonicalShape ==
    /\ \A u \in Ids : subs[u] # NoSub => C32_Canonical(subs[u])
    /\ disk.state = "json" =>
         \A k \in DOMAIN disk.subscribers :
            /\ disk.subscribers[k].shape = "object"
            /\ C32_Canonical(disk.subscribers[k])
    /\ (last_op.op = "activate" /\ subs[last_op.id] # NoSub) =>
         subs[last_op.id].type = TYPE_USER

\* ------------------------------------------------------------------- C33
\* C33: an activation never shortens an entitlement: a lifetime record
\* (expiry 0) is still a lifetime record after it, and a dated record never
\* gets an earlier expiry.
C33_NeverShortens ==
    [][(n_ops' = n_ops + 1 /\ last_op'.op = "activate"
          /\ subs[last_op'.id] # NoSub) =>
         LET before == subs[last_op'.id].expiry
             after == subs'[last_op'.id].expiry
         IN  IF before = LIFETIME_EXPIRY THEN after = LIFETIME_EXPIRY
             ELSE after = LIFETIME_EXPIRY \/ after >= before]_vars

\* ------------------------------------------------------------------- C34
\* C34: a removal survives a restart: a recipient removed by /unsubscribe, or a
\* group removed when the bot left it, has no record in the store the next
\* start loads, whatever legacy files and document the first start found.
C34_RemovalDurable ==
    [][(boots' = boots + 1 /\ last_op.op \in {"unsubscribe", "group_remove"}
          /\ last_op.saved)
         => subs'[last_op.id] = NoSub]_vars

\* ------------------------------------------------------------------- C35
\* C35: every "recovered" notification a recipient gets comes after a
\* "degraded" one of the same latch to that same recipient, with no other
\* "recovered" in between: for an individual (whose latch object is the stored
\* one), and for every member of the pooled audience while groups join and
\* leave.  The ceiling pair ("high", "normalized") likewise.
C35_Paired ==
    [][(SendCompletes /\ (last_sent'.stream = "pool" \/ state_linked)) =>
         /\ last_sent'.kind = "recovered" => floor_out[last_sent'.to]
         /\ last_sent'.kind = "normalized" => ceiling_out[last_sent'.to]]_vars

\* ------------------------------------------------------------------- C36
\* C36: a cycle whose snapshot was computed from insufficient data (the
\* proofrate is the sentinel 0.0) sets no floor latch, an individual's or the
\* pool's, and sends no "low" notification.
C36_SentinelQuiet ==
    [][proofrate = 0 =>
         /\ \A u \in Ids : user_alert_state'[u].floor_triggered
                             => user_alert_state[u].floor_triggered
         /\ floor_alert_triggered' => floor_alert_triggered
         /\ SendCompletes => last_sent'.kind # "low"]_vars

\* ------------------------------------------------------------------- C37
\* The comparisons of the claim, on the cycle's own proofrate and thresholds
\* (a NaN threshold compares false either way).
C37_Below == floor # NaN /\ proofrate < floor
C37_Above == ceiling # NaN /\ proofrate > ceiling
C37_Local ==
    /\ pc \in {"send_floor", "ceiling", "send_ceiling"} =>
         state.floor_triggered = C37_Below
    /\ pc = "send_ceiling" => state.ceiling_triggered = C37_Above
C37_Step ==
    (pc \in {"ceiling", "send_ceiling"} /\ pc' = "loop" /\ state_linked) =>
      /\ user_alert_state'[user_id].floor_triggered = C37_Below
      /\ user_alert_state'[user_id].ceiling_triggered = C37_Above
\* C37: once the cycle has evaluated an active individual with proofrate p and
\* the thresholds (floor, ceiling), the recipient's floor latch is set exactly
\* when p < floor and the ceiling latch exactly when p > ceiling, whatever the
\* two latches were before the evaluation.
C37_LatchesFollow == [][C37_Step]_vars /\ []C37_Local
\* Recipient 1, whose floor latch was set, has been evaluated at a proofrate
\* above the ceiling: "recovered" and "high" went out and the pair is now
\* (clear, set).
C37_Witness ==
    /\ pc = "loop" /\ DictKeys(entries) = {1}
    /\ proofrate = 25 /\ proofrate > UserCeiling(subs[1])
    /\ n_sent = 2 /\ last_sent.to = 1 /\ last_sent.kind = "high"
    /\ user_alert_state[1].present
    /\ ~user_alert_state[1].floor_triggered
    /\ user_alert_state[1].ceiling_triggered

\* ------------------------------------------------------------------- C38
\* C38 as stated: in every reachable state no latch pair has both its latches
\* set: not an individual's pair (while the recipient sets and resets
\* thresholds, pays and unsubscribes), not the pair of the pooled audience.
C38_Exclusive ==
    /\ \A u \in Ids : ~(user_alert_state[u].floor_triggered
                          /\ user_alert_state[u].ceiling_triggered)
    /\ ~(floor_alert_triggered /\ ceiling_alert_triggered)

\* C38: under every order of the configured floor and ceiling, a latch pair
\* has both latches set only while the cycle is between the floor step and
\* the ceiling step of that very pair (the floor latch was just set, its
\* notification is being delivered, and the ceiling latch of an earlier cycle
\* has not been looked at yet), or when the floor the pair is compared with
\* lies above its ceiling; with a floor at or below the ceiling, once the
\* pair's evaluation is over, and in every state outside it, at most one of
\* the two is set.
C38_ExclusiveAtRest ==
    /\ \A u \in Ids :
         (user_alert_state[u].floor_triggered
            /\ user_alert_state[u].ceiling_triggered)
         => \/ pc \in {"send_floor", "ceiling"} /\ user_id = u /\ state_linked
            \/ UserFloor(subs[u]) > UserCeiling(subs[u])
    /\ (state.floor_triggered /\ state.ceiling_triggered)
         => (pc \in {"send_floor", "ceiling"} \/ floor > ceiling)
    /\ (floor_alert_triggered /\ ceiling_alert_triggered)
         => \/ pc \in {"g_send_floor", "g_ceiling"}
            \/ PROOFRATE_ALERT_FLOOR > PROOFRATE_ALERT_CEILING
\* With the floor not above the ceiling, the pool's pair was (clear, set); a
\* cycle with the proofrate below the floor has set the floor latch, sent
\* "low" with both latches set, cleared the ceiling latch and sent
\* "normalized": the pair is (set, clear) when the cycle ends.
C38_Witness ==
    /\ pc = "done" /\ ~aborted
    /\ PROOFRATE_ALERT_FLOOR <= PROOFRATE_ALERT_CEILING
    /\ floor_alert_triggered /\ ~ceiling_alert_triggered
    /\ n_sent = 2 /\ last_sent.stream = "pool" /\ last_sent.kind = "normalized"
    /\ proofrate < PROOFRATE_ALERT_FLOOR

\* ------------------------------------------------------------------- C39
C39_Step ==
    (n_ops' = n_ops + 1 /\ last_op'.op \in {"setalerts", "resetalerts"}
       /\ ~Entitled(subs[last_op'.id], clock)) =>
      /\ last_op'.result = "inactive" /\ ~last_op'.saved
      /\ subs' = subs /\ entries' = entries
      /\ disk' = disk
      /\ user_alert_state' = user_alert_state
      /\ floor_alert_triggered' = floor_alert_triggered
      /\ ceiling_alert_triggered' = ceiling_alert_triggered
\* C39: /setalerts or /resetalerts from a sender who has no record, or whose
\* subscription has lapsed, changes nothing: the store, the persisted document
\* and every alert latch are as they were.
C39_Refused == [][C39_Step]_vars
\* Subscriber 1, with custom thresholds and the floor latch set, let the
\* subscription lapse; /resetalerts was refused and the thresholds and the
\* latch are still there.
C39_Witness ==
    /\ last_op.op = "resetalerts" /\ last_op.id = 1
    /\ last_op.result = "inactive"
    /\ subs[1] # NoSub /\ subs[1].expiry # LIFETIME_EXPIRY
    /\ subs[1].expiry <= clock
    /\ subs[1].floor = 5 /\ subs[1].ceiling = 10
    /\ user_alert_state[1].floor_triggered

=============================================================================
